---- MODULE Spec2Model ----
(***************************************************************************)
(* GeneralsBigEditor: the BIG archive codec (big_ui.py, BIGArchive), the   *)
(* editor handlers that drive it (BIGArchiveEditor) and the INI object     *)
(* parser (enhanced_integration.py, SmartINIParser).                       *)
(*                                                                         *)
(* Bytes are integers 0..255, byte strings are sequences of bytes, text    *)
(* is a sequence of characters.  Python objects with identity (the         *)
(* FileEntry instances) live in `heap`; an entry reference is its index.   *)
(***************************************************************************)
EXTENDS Integers, Sequences, FiniteSets, TLC

VARIABLES
    disk,           \* file system: file name -> bytes, or NoBytes when absent
    archive,        \* BIGArchiveEditor.archive: <<>> is None, <<a>> a BIGArchive
    current_file,   \* BIGArchiveEditor.current_file: "" is None
    current_entry,  \* BIGArchiveEditor.current_entry: 0 is None, else a heap index
    entry_map,      \* BIGArchiveEditor.entry_map: the entries shown in the tree
    heap,           \* every FileEntry object created so far, by identity
    op,             \* the handler that ran last
    args,           \* the inputs it was called with
    result,         \* "ok" or the exception it met
    written,        \* the bytes the last save call emitted
    rt,             \* what the last successful loads read (round-trip record)
    prev,           \* op, args, result and written of the call before the last
    steps,          \* handler calls so far
    text,           \* the lines parse_ini_content has gone through so far
    source_file,    \* the label passed to parse_ini_content
    parser,         \* the locals of parse_ini_content after those lines
    all_objects,    \* EnhancedNodeEditorIntegration.all_objects
    relationships,  \* SmartINIParser.relationships: <<>> is {}, <<r>> the ten maps
    load_error      \* what lines 510-519 of the last load_ini_to_nodes raised

codecVars == <<disk, archive, current_file, current_entry, entry_map, heap,
               op, args, result, written, rt, prev, steps>>
parserVars == <<text, source_file, parser>>
graphVars == <<all_objects, relationships, load_error>>
vars == <<codecVars, parserVars, graphVars>>

\* ------------------------------------------------------------------ bounds
\* FileEntry objects created in one run (loads and adds together).
MaxIds == 4
\* Metadata records in a generated input archive.
MaxCount == 2
\* Handler calls in one run of the editor.
MaxSteps == 4

\* ------------------------------------------------------------------ bytes
NoBytes == <<-1>>            \* Python None where bytes are expected

Min(a, b) == IF a < b THEN a ELSE b

\* file.read(n) at position pos of a BytesIO over data (short at the end)
Slice(data, pos, n) ==
    IF pos >= Len(data) THEN <<>> ELSE SubSeq(data, pos + 1, Min(pos + n, Len(data)))

StartsWith(s, p) == Len(s) >= Len(p) /\ SubSeq(s, 1, Len(p)) = p

RECURSIVE Concat(_)
Concat(ss) == IF ss = <<>> THEN <<>> ELSE Head(ss) \o Concat(Tail(ss))

RECURSIVE SumSeq(_)
SumSeq(ns) == IF ns = <<>> THEN 0 ELSE Head(ns) + SumSeq(Tail(ns))

read_uint32_be(b) == b[1] * 16777216 + b[2] * 65536 + b[3] * 256 + b[4]
read_uint32_le(b) == b[4] * 16777216 + b[3] * 65536 + b[2] * 256 + b[1]

\* struct.pack('>I', v) / ('<I', v).  Every value of the model stays far below
\* 2^31, so the range error of struct.pack is out of reach and not modelled.
write_uint32_be(v) ==
    [err |-> "", bytes |-> << (v \div 16777216) % 256, (v \div 65536) % 256,
                              (v \div 256) % 256, v % 256 >>]
write_uint32_le(v) ==
    [err |-> "", bytes |-> << v % 256, (v \div 256) % 256,
                              (v \div 65536) % 256, (v \div 16777216) % 256 >>]

\* read_string: bytes up to NUL or the end; the NUL is consumed; bytes that are
\* not ASCII are dropped by decode('ascii', errors='ignore')
RECURSIVE read_string(_, _, _)
read_string(data, pos, acc) ==
    IF pos >= Len(data) THEN [path |-> acc, pos |-> pos]
    ELSE IF data[pos + 1] = 0 THEN [path |-> acc, pos |-> pos + 1]
    ELSE read_string(data, pos + 1,
                     IF data[pos + 1] < 128 THEN Append(acc, data[pos + 1]) ELSE acc)

\* write_string: encode('ascii') raises on a character that is not ASCII
write_string(path) ==
    IF \E i \in 1..Len(path) : path[i] >= 128
    THEN [err |-> "UnicodeEncodeError", bytes |-> <<>>]
    ELSE [err |-> "", bytes |-> Append(path, 0)]

BIG4 == <<66, 73, 71, 52>>
BIGF == <<66, 73, 71, 70>>
BIG5 == <<66, 73, 71, 53>>
BIG  == <<66, 73, 71>>

FileEntry(offset, size, path, data) ==
    [offset |-> offset, size |-> size, path |-> path, data |-> data, modified |-> FALSE]

BIGArchive ==
    [header |-> NoBytes, file_size |-> 0, entries |-> <<>>, original_data |-> NoBytes]

\* ------------------------------------------------------------------ load
\* The metadata loop of load (lines 79-84 / 87-91): n records from position pos,
\* each with a skipped byte first when skip = 1.  A read of fewer than 4 bytes
\* makes struct.unpack raise; the entries appended before it stay in the list.
RECURSIVE read_entries(_, _, _, _, _)
read_entries(data, pos, n, skip, acc) ==
    IF n = 0 THEN [err |-> "", entries |-> acc]
    ELSE LET p0   == pos + skip
             offb == Slice(data, p0, 4)
             sizb == Slice(data, p0 + 4, 4)
         IN IF Len(offb) < 4 \/ Len(sizb) < 4
            THEN [err |-> "struct.error", entries |-> acc]
            ELSE LET s == read_string(data, p0 + 8, <<>>)
                 IN read_entries(data, s.pos, n - 1, skip,
                        Append(acc, FileEntry(read_uint32_be(offb), read_uint32_be(sizb),
                                              s.path, NoBytes)))

\* BIGArchive.load on a fresh BIGArchive, given the file's bytes (NoBytes: the
\* file cannot be opened).  Returns the exception met ("" for none) and the
\* fields of the archive object as the call leaves them.
load(data) ==
    IF data = NoBytes
    THEN [err |-> "FileNotFoundError", archive |-> BIGArchive, entries |-> <<>>]
    ELSE
    LET header == Slice(data, 0, 4)
        a0 == [BIGArchive EXCEPT !.original_data = data, !.header = header]
        sizeb == Slice(data, 4, 4)
        cntb == Slice(data, 8, 4)
    IN IF ~StartsWith(header, BIG)
       THEN [err |-> "ValueError", archive |-> a0, entries |-> <<>>]
       ELSE IF Len(sizeb) < 4
       THEN [err |-> "struct.error", archive |-> a0, entries |-> <<>>]
       ELSE LET a1 == [a0 EXCEPT !.file_size = read_uint32_le(sizeb)]
            IN IF Len(cntb) < 4
               THEN [err |-> "struct.error", archive |-> a1, entries |-> <<>>]
               ELSE LET r == IF header = BIG5
                             THEN read_entries(data, 15, read_uint32_be(cntb), 1, <<>>)
                             ELSE read_entries(data, 16, read_uint32_be(cntb), 0, <<>>)
                    IN IF r.err # ""
                       THEN [err |-> r.err, archive |-> a1, entries |-> r.entries]
                       ELSE [err |-> "", archive |-> a1,
                             entries |-> [i \in 1..Len(r.entries) |->
                                 [r.entries[i] EXCEPT !.data =
                                     Slice(data, r.entries[i].offset, r.entries[i].size)]]]

\* ------------------------------------------------------------------ save
\* Lines 99-114: the position where the payload region starts.
\* A variant of metadata_end that forgets the NUL byte ending each path.
metadata_end_no_terminator(header, ents) ==
    12 + (IF header = BIG5 THEN 3 ELSE 4)
       + SumSeq([i \in 1..Len(ents) |->
                    (IF header = BIG5 THEN 1 ELSE 0) + 8 + Len(ents[i].path)])

metadata_end(header, ents) ==
    12 + (IF header = BIG5 THEN 3 ELSE 4)
       + SumSeq([i \in 1..Len(ents) |->
                    (IF header = BIG5 THEN 1 ELSE 0) + 8 + Len(ents[i].path) + 1])

\* A variant of new_offset that starts from the entry's previous offset
\* instead of the end of the metadata.
new_offset_from_old(header, ents, i) ==
    ents[i].offset + 12 + SumSeq([j \in 1..(i - 1) |-> ents[j].size])

\* Lines 116-119: the offset given to the i-th entry.
new_offset(header, ents, i) ==
    metadata_end(header, ents) + SumSeq([j \in 1..(i - 1) |-> ents[j].size])

\* Line 121.
total_size(header, ents) ==
    metadata_end(header, ents) + SumSeq([j \in 1..Len(ents) |-> ents[j].size])

\* f.write(x) of a bytes value; f.write(None) raises TypeError
write_bytes(b) ==
    IF b = NoBytes THEN [err |-> "TypeError", bytes |-> <<>>] ELSE [err |-> "", bytes |-> b]

\* Lines 126-147: the writes of save in order, each the bytes it emits or the
\* exception it raises.  ents carry the offsets assigned by lines 116-119.
save_writes(header, ents) ==
    <<write_bytes(header),
      write_uint32_le(total_size(header, ents)),
      write_uint32_be(Len(ents)),
      write_bytes(IF header = BIG5 THEN <<0, 0, 0>> ELSE <<0, 0, 0, 0>>)>>
    \o Concat([i \in 1..Len(ents) |->
          (IF header = BIG5 THEN <<write_bytes(<<0>>)>> ELSE <<>>)
          \o <<write_uint32_be(ents[i].offset), write_uint32_be(ents[i].size),
               write_string(ents[i].path)>>])
    \o [i \in 1..Len(ents) |-> write_bytes(ents[i].data)]

\* What reaches the file: the bytes of the writes before the first one that raises.
RECURSIVE emitted(_)
emitted(ws) ==
    IF ws = <<>> THEN [err |-> "", bytes |-> <<>>]
    ELSE IF Head(ws).err # "" THEN [err |-> Head(ws).err, bytes |-> <<>>]
    ELSE LET r == emitted(Tail(ws))
         IN [err |-> r.err, bytes |-> Head(ws).bytes \o r.bytes]

\* BIGArchive.save(filepath) on archive a whose entries are the heap objects
\* a.entries; old is the target file's content, writable whether open(.., 'wb')
\* succeeds.  Returns the exception, the heap after the call, the bytes emitted
\* and the target file's content after the call.
save(a, h, old, writable) ==
    LET ents0 == [i \in 1..Len(a.entries) |-> h[a.entries[i]]]
        ents  == [i \in 1..Len(ents0) |->
                     [ents0[i] EXCEPT !.offset = new_offset(a.header, ents0, i)]]
        h1    == [k \in 1..Len(h) |->
                     IF \E i \in 1..Len(a.entries) : a.entries[i] = k
                     THEN ents[CHOOSE i \in 1..Len(a.entries) : a.entries[i] = k]
                     ELSE h[k]]
        w     == emitted(save_writes(a.header, ents))
    IN IF ~writable
       THEN [err |-> "FileNotFoundError", heap |-> h1, written |-> <<>>, file |-> old]
       ELSE [err |-> w.err, heap |-> h1, written |-> w.bytes, file |-> w.bytes]

\* ------------------------------------------------------------------ edits
\* A variant of add_file that overwrites a listed entry of the same path
\* instead of appending a second one.
add_file_upsert(a, h, path, data) ==
    IF \E i \in 1..Len(a.entries) : h[a.entries[i]].path = path
    THEN LET k == a.entries[CHOOSE i \in 1..Len(a.entries) : h[a.entries[i]].path = path]
         IN [archive |-> a,
             heap    |-> [h EXCEPT ![k] = [@ EXCEPT !.data = data, !.size = Len(data),
                                                    !.modified = TRUE]]]
    ELSE [archive |-> [a EXCEPT !.entries = Append(@, Len(h) + 1)],
          heap    |-> Append(h, [FileEntry(0, Len(data), path, data) EXCEPT !.modified = TRUE])]

\* BIGArchive.add_file: the new FileEntry is the next heap object.
add_file(a, h, path, data) ==
    [archive |-> [a EXCEPT !.entries = Append(@, Len(h) + 1)],
     heap    |-> Append(h, [FileEntry(0, Len(data), path, data) EXCEPT !.modified = TRUE])]

\* list.remove(x): drops the first element equal to x.  FileEntry defines no
\* __eq__, so equality is identity; ValueError when x is not in the list.
RECURSIVE list_remove(_, _)
list_remove(l, x) ==
    IF l = <<>> THEN <<>>
    ELSE IF Head(l) = x THEN Tail(l)
    ELSE <<Head(l)>> \o list_remove(Tail(l), x)

InList(l, x) == \E i \in 1..Len(l) : l[i] = x

\* A variant of remove_file that drops the last listed entry, whichever
\* entry it is given.
remove_file_pop(a, entry) ==
    IF InList(a.entries, entry)
    THEN [err |-> "", archive |-> [a EXCEPT !.entries = SubSeq(@, 1, Len(@) - 1)]]
    ELSE [err |-> "ValueError", archive |-> a]

remove_file(a, entry) ==
    IF InList(a.entries, entry)
    THEN [err |-> "", archive |-> [a EXCEPT !.entries = list_remove(@, entry)]]
    ELSE [err |-> "ValueError", archive |-> a]

\* A variant of update_file that leaves the size field as it was.
update_file_keep_size(h, entry, data) ==
    [h EXCEPT ![entry] = [@ EXCEPT !.data = data, !.modified = TRUE]]

\* BIGArchive.update_file: mutates the entry object, whether or not the
\* archive lists it.
update_file(h, entry, data) ==
    [h EXCEPT ![entry] = [@ EXCEPT !.data = data, !.size = Len(data), !.modified = TRUE]]

\* ------------------------------------------------------------------ inputs
\* Entry paths "a", "bc" and one path with a character that is not ASCII.
PathA  == <<97>>
PathBC == <<98, 99>>
PathNonAscii == <<233>>

\* The files an archive on disk is generated from.
InputEntries ==
    { [path |-> PathA, data |-> <<>>], [path |-> PathBC, data |-> <<8, 9>>] }

RECURSIVE SeqsUpTo(_, _)
SeqsUpTo(S, n) ==
    IF n = 0 THEN { <<>> }
    ELSE SeqsUpTo(S, n - 1) \cup
         { Append(q, x) : q \in { r \in SeqsUpTo(S, n - 1) : Len(r) = n - 1 }, x \in S }

Reverse(q) == [i \in 1..Len(q) |-> q[Len(q) + 1 - i]]

\* An archive file holding the entries es under magic m.  The payloads follow
\* the metadata back to back in list order ("packed"), or in reverse order and
\* each behind one byte that belongs to no entry ("scattered").
InputArchive(m, es, layout) ==
    LET n     == Len(es)
        big5  == m = BIG5
        start == 12 + (IF big5 THEN 3 ELSE 4)
                 + SumSeq([i \in 1..n |-> (IF big5 THEN 9 ELSE 8) + Len(es[i].path) + 1])
        body  == IF layout = "packed"
                 THEN Concat([i \in 1..n |-> es[i].data])
                 ELSE Concat(Reverse([i \in 1..n |-> <<255>> \o es[i].data]))
        off(i) == IF layout = "packed"
                  THEN start + SumSeq([j \in 1..(i - 1) |-> Len(es[j].data)])
                  ELSE start + SumSeq([j \in 1..(n - i) |-> 1 + Len(es[i + j].data)]) + 1
    IN m \o write_uint32_le(start + Len(body)).bytes \o write_uint32_be(n).bytes
         \o (IF big5 THEN <<1, 2, 3>> ELSE <<1, 2, 3, 4>>)
         \o Concat([i \in 1..n |->
               (IF big5 THEN <<5>> ELSE <<>>)
               \o write_uint32_be(off(i)).bytes \o write_uint32_be(Len(es[i].data)).bytes
               \o es[i].path \o <<0>>])
         \o body

WellFormedInputs ==
    { InputArchive(m, es, layout) :
        m \in {BIG4, BIGF, BIG5}, es \in SeqsUpTo(InputEntries, MaxCount),
        layout \in {"packed", "scattered"} }

\* Files that are not archives of the three variants, or are cut short.
MalformedInputs ==
    LET one == <<[path |-> PathA, data |-> <<7>>]>>
        ok4 == InputArchive(BIG4, one, "packed")
        ok5 == InputArchive(BIG5, one, "packed")
    IN { <<65, 66, 67, 68>> \o Slice(ok4, 4, Len(ok4)),   \* "ABCD", rest in order
         <<66, 73, 71, 88>> \o Slice(ok4, 4, Len(ok4)),   \* "BIGX", rest in order
         <<66, 73>>,                                      \* shorter than a magic
         <<66, 73, 71>>,                                  \* "BIG" and nothing else
         Slice(ok4, 0, 6),                                \* cut inside total_size
         Slice(ok4, 0, 10),                               \* cut inside entry_count
         \* entry_count 2, one record present
         BIGF \o Slice(ok4, 4, 4) \o <<0, 0, 0, 2>> \o Slice(ok4, 12, Len(ok4)),
         \* second record cut inside its offset
         BIG5 \o Slice(ok5, 4, 4) \o <<0, 0, 0, 2>> \o Slice(ok5, 12, 15) \o <<5, 0, 0>>,
         \* size field 3, one payload byte in the file
         Slice(ok4, 0, 20) \o <<0, 0, 0, 3>> \o Slice(ok4, 24, Len(ok4)),
         \* a path byte that is not ASCII
         Slice(ok4, 0, 24) \o <<233>> \o Slice(ok4, 25, Len(ok4)) }

Inputs == WellFormedInputs \cup MalformedInputs

Files == {"in.big", "out.big", "ro.big"}
\* open(f, 'wb') fails on ro.big, a path in a directory that does not exist
Writable(f) == f # "ro.big"

AddPaths == {PathA, PathNonAscii}
AddData  == {<<7>>}
NewData  == {<<8, 9>>, <<>>}

\* ------------------------------------------------------------------ text
\* Text is a sequence of one-character strings.  str.strip() and str.split()
\* take blank, tab and carriage return as whitespace.
IsSpace(c) == c \in {" ", "\t", "\r"}

RECURSIVE lstrip(_)
lstrip(s) == IF s # <<>> /\ IsSpace(Head(s)) THEN lstrip(Tail(s)) ELSE s

RECURSIVE rstrip(_)
rstrip(s) == IF s # <<>> /\ IsSpace(s[Len(s)]) THEN rstrip(SubSeq(s, 1, Len(s) - 1)) ELSE s

strip(s) == lstrip(rstrip(s))

\* sub in s
Contains(s, sub) ==
    \E i \in 0..(Len(s) - Len(sub)) : SubSeq(s, i + 1, i + Len(sub)) = sub

\* s.split(c): every occurrence of the character c separates
\* (cur is what was read of the first piece before s)
split_char(s, c, cur) ==
    LET at   == SelectSeq([i \in 1..Len(s) |-> i], LAMBDA i : s[i] = c)
        cuts == <<0>> \o at \o <<Len(s) + 1>>
    IN [k \in 1..(Len(at) + 1) |->
           (IF k = 1 THEN cur ELSE <<>>) \o SubSeq(s, cuts[k] + 1, cuts[k + 1] - 1)]

\* s.split(c, 1): the first occurrence of c separates, if there is one
split_char_once(s, c) ==
    IF \E i \in 1..Len(s) : s[i] = c
    THEN LET i == CHOOSE i \in 1..Len(s) : s[i] = c /\ \A j \in 1..(i - 1) : s[j] # c
         IN <<SubSeq(s, 1, i - 1), SubSeq(s, i + 1, Len(s))>>
    ELSE <<s>>

\* s.split(): the runs of characters that are not whitespace
RECURSIVE split_ws(_, _)
split_ws(s, cur) ==
    IF s = <<>> THEN (IF cur = <<>> THEN <<>> ELSE <<cur>>)
    ELSE IF IsSpace(Head(s))
         THEN (IF cur = <<>> THEN <<>> ELSE <<cur>>) \o split_ws(Tail(s), <<>>)
         ELSE split_ws(Tail(s), Append(cur, Head(s)))

\* The first n characters of s that are not whitespace, n as large as possible.
RECURSIVE first_token(_)
first_token(s) ==
    IF s = <<>> \/ IsSpace(Head(s)) THEN <<>> ELSE <<Head(s)>> \o first_token(Tail(s))

\* s.split(None, 1): the first token, and what follows the whitespace after it
split_ws_once(s) ==
    LET t    == lstrip(s)
        tok  == first_token(t)
        rest == lstrip(SubSeq(t, Len(tok) + 1, Len(t)))
    IN IF tok = <<>> THEN <<>>
       ELSE IF rest = <<>> THEN <<tok>>
       ELSE <<tok, rest>>

\* s.replace(c, ""): s without the character c
RECURSIVE remove_char(_, _)
remove_char(s, c) ==
    IF s = <<>> THEN <<>>
    ELSE IF Head(s) = c THEN remove_char(Tail(s), c)
    ELSE <<Head(s)>> \o remove_char(Tail(s), c)

\* content.split('\n')
split_lines(content) == split_char(content, "\n", <<>>)

\* ------------------------------------------------------------------ dict
\* A Python dict: key/value pairs in insertion order, keys unique.
DictHas(d, k) == \E i \in 1..Len(d) : d[i][1] = k
DictGet(d, k) == d[CHOOSE i \in 1..Len(d) : d[i][1] = k][2]
\* A variant of DictSet that adds a pair whether or not the key is present.
DictSet_append(d, k, v) == Append(d, <<k, v>>)

\* d[k] = v: a key that is present keeps its place
DictSet(d, k, v) ==
    IF DictHas(d, k)
    THEN [i \in 1..Len(d) |-> IF d[i][1] = k THEN <<k, v>> ELSE d[i]]
    ELSE Append(d, <<k, v>>)
DictKeys(d) == [i \in 1..Len(d) |-> d[i][1]]

\* Values of a property map: a str, a list, or None.
Str(v)  == [kind |-> "str", v |-> v]
List(v) == [kind |-> "list", v |-> v]
None    == [kind |-> "none", v |-> <<>>]

\* The words the parser looks for.
W ==
    [Object |-> <<"O", "b", "j", "e", "c", "t">>,
     Weapon |-> <<"W", "e", "a", "p", "o", "n">>,
     Armor |-> <<"A", "r", "m", "o", "r">>,
     Science |-> <<"S", "c", "i", "e", "n", "c", "e">>,
     Upgrade |-> <<"U", "p", "g", "r", "a", "d", "e">>,
     Locomotor |-> <<"L", "o", "c", "o", "m", "o", "t", "o", "r">>,
     CommandSet |-> <<"C", "o", "m", "m", "a", "n", "d", "S", "e", "t">>,
     CommandButton |-> <<"C", "o", "m", "m", "a", "n", "d", "B", "u", "t", "t", "o", "n">>,
     FXList |-> <<"F", "X", "L", "i", "s", "t">>,
     ParticleSystem |-> <<"P", "a", "r", "t", "i", "c", "l", "e", "S", "y", "s", "t", "e", "m">>,
     ObjectCreationList |-> <<"O", "b", "j", "e", "c", "t", "C", "r", "e", "a", "t", "i", "o", "n", "L", "i", "s", "t">>,
     SpecialPower |-> <<"S", "p", "e", "c", "i", "a", "l", "P", "o", "w", "e", "r">>,
     WeaponSet |-> <<"W", "e", "a", "p", "o", "n", "S", "e", "t">>,
     ArmorSet |-> <<"A", "r", "m", "o", "r", "S", "e", "t">>,
     Prerequisites |-> <<"P", "r", "e", "r", "e", "q", "u", "i", "s", "i", "t", "e", "s">>,
     Conditions |-> <<"C", "o", "n", "d", "i", "t", "i", "o", "n", "s">>,
     End |-> <<"E", "n", "d">>,
     ModuleTag |-> <<"M", "o", "d", "u", "l", "e", "T", "a", "g", "_">>,
     ShowSubObject |-> <<"S", "h", "o", "w", "S", "u", "b", "O", "b", "j", "e", "c", "t">>,
     HideSubObject |-> <<"H", "i", "d", "e", "S", "u", "b", "O", "b", "j", "e", "c", "t">>,
     DamageFX |-> <<"D", "a", "m", "a", "g", "e", "F", "X">>,
     FX |-> <<"F", "X">>,
     None |-> <<"N", "o", "n", "e">>,
     ObjectCreationUpgrade |-> <<"O", "b", "j", "e", "c", "t", "C", "r", "e", "a", "t", "i", "o", "n", "U", "p", "g", "r", "a", "d", "e">>,
     TriggeredBy |-> <<"T", "r", "i", "g", "g", "e", "r", "e", "d", "B", "y">>]

\* The keys the parser writes into property maps.
K ==
    [raw |-> <<"_", "r", "a", "w">>,
     lines |-> <<"_", "l", "i", "n", "e", "s">>,
     weapons |-> <<"w", "e", "a", "p", "o", "n", "s">>,
     conditions |-> <<"c", "o", "n", "d", "i", "t", "i", "o", "n", "s">>,
     armors |-> <<"a", "r", "m", "o", "r", "s">>,
     prerequisites |-> <<"p", "r", "e", "r", "e", "q", "u", "i", "s", "i", "t", "e", "s">>]


\* ------------------------------------------------------------------ parser
Keywords ==
    { W.Object, W.Weapon, W.Armor, W.Science, W.Upgrade, W.Locomotor, W.CommandSet,
      W.CommandButton, W.FXList, W.ParticleSystem, W.ObjectCreationList, W.SpecialPower }

_is_object_definition(line) == \E kw \in Keywords : StartsWith(line, Append(kw, " "))

\* (type, name) of a definition line; <<>> stands for (None, None)
_parse_object_definition(line) ==
    LET parts == split_ws_once(line)
    IN IF Len(parts) >= 2 THEN <<parts[1], parts[2]>> ELSE <<>>

\* The locals of parse_ini_content before the first line.  A definition is
\* referred to by its key in objects, a section by the key of its definition
\* and its own key in that definition's sections; <<>> is None.  error names the
\* exception that ended the call, "" while there is none.
ParserStart ==
    [objects |-> <<>>, current_object |-> <<>>, current_section |-> <<>>,
     section_stack |-> <<>>, in_section |-> FALSE, section_properties |-> <<>>,
     error |-> ""]

\* _parse_property(line, obj, None): the property map of obj after the line;
\* appending to a value that is no list raises AttributeError.
_parse_property(line, properties) ==
    IF Contains(line, <<"=">>)
    THEN LET parts == split_char_once(line, "=")
         IN [err |-> "",
             properties |-> DictSet(properties, strip(parts[1]), Str(strip(parts[2])))]
    ELSE LET parts == split_ws_once(line)
         IN IF parts = <<>> THEN [err |-> "", properties |-> properties]
            ELSE LET key   == parts[1]
                     value == IF Len(parts) > 1 THEN parts[2] ELSE <<>>
                 IN IF key \in {W.ShowSubObject, W.HideSubObject}
                    THEN IF ~DictHas(properties, key)
                         THEN [err |-> "",
                               properties |-> DictSet(properties, key, List(<<value>>))]
                         ELSE IF DictGet(properties, key).kind = "list"
                         THEN [err |-> "",
                               properties |-> DictSet(properties, key,
                                   List(Append(DictGet(properties, key).v, value)))]
                         ELSE [err |-> "AttributeError", properties |-> properties]
                    ELSE [err |-> "", properties |-> DictSet(properties, key, Str(value))]

\* The value after the first "=" of a buffered line, stripped.
after_equals(prop) == strip(split_char_once(prop, "=")[2])

\* The Conditions value of a buffered line that starts with Conditions.
conditions_of(prop) ==
    IF Contains(prop, <<"=">>) THEN Str(after_equals(prop)) ELSE Str(W.None)

\* Lines 191-208: the loop over the buffered lines of a WeaponSet.
RECURSIVE weaponset_scan(_, _)
weaponset_scan(props, acc) ==
    IF props = <<>> THEN acc
    ELSE LET prop == Head(props)
         IN IF StartsWith(prop, W.Conditions)
            THEN weaponset_scan(Tail(props), [acc EXCEPT !.conditions = conditions_of(prop)])
            ELSE IF StartsWith(prop, W.Weapon) /\ Contains(prop, <<"=">>)
            THEN LET parts == split_ws(after_equals(prop), <<>>)
                 IN IF Len(parts) >= 2 /\ ~Contains(parts[2], W.FX)
                    THEN weaponset_scan(Tail(props),
                             [acc EXCEPT !.weapons =
                                 Append(@, [slot |-> parts[1], weapon |-> parts[2]])])
                    ELSE weaponset_scan(Tail(props), acc)
            ELSE weaponset_scan(Tail(props), acc)

\* Lines 217-227: the loop over the buffered lines of an ArmorSet.
RECURSIVE armorset_scan(_, _)
armorset_scan(props, acc) ==
    IF props = <<>> THEN acc
    ELSE LET prop == Head(props)
         IN IF StartsWith(prop, W.Conditions)
            THEN armorset_scan(Tail(props), [acc EXCEPT !.conditions = conditions_of(prop)])
            ELSE IF StartsWith(prop, W.Armor) /\ Contains(prop, <<"=">>)
            THEN armorset_scan(Tail(props),
                     [acc EXCEPT !.armors = Append(@, after_equals(prop))])
            ELSE IF StartsWith(prop, W.DamageFX) /\ Contains(prop, <<"=">>)
            THEN armorset_scan(Tail(props),
                     [acc EXCEPT !.properties =
                         DictSet(@, W.DamageFX, Str(after_equals(prop)))])
            ELSE armorset_scan(Tail(props), acc)

\* Lines 235-238: the loop over the buffered lines of a Prerequisites section.
RECURSIVE prerequisites_scan(_, _)
prerequisites_scan(props, acc) ==
    IF props = <<>> THEN acc
    ELSE LET prop == Head(props)
         IN IF StartsWith(prop, W.Object) /\ Contains(prop, <<"=">>)
            THEN prerequisites_scan(Tail(props), Append(acc, after_equals(prop)))
            ELSE prerequisites_scan(Tail(props), acc)

\* Lines 244-252: the loop over the buffered lines of any other section.
RECURSIVE generic_scan(_, _)
generic_scan(props, acc) ==
    IF props = <<>> \/ acc.err # "" THEN acc
    ELSE LET prop == Head(props)
         IN IF Contains(prop, <<"=">>)
            THEN LET kv == split_char_once(prop, "=")
                 IN generic_scan(Tail(props),
                        [acc EXCEPT !.properties = DictSet(@, strip(kv[1]), Str(strip(kv[2])))])
            ELSE IF ~DictHas(acc.properties, K.lines)
            THEN generic_scan(Tail(props),
                     [acc EXCEPT !.properties = DictSet(@, K.lines, List(<<prop>>))])
            ELSE IF DictGet(acc.properties, K.lines).kind = "list"
            THEN generic_scan(Tail(props),
                     [acc EXCEPT !.properties =
                         DictSet(@, K.lines, List(Append(DictGet(@, K.lines).v, prop)))])
            ELSE [acc EXCEPT !.err = "AttributeError"]

\* _process_section_properties(section, properties): the property map of the
\* section after the call, and the exception it raised.
_process_section_properties(section, properties) ==
    IF section.type = W.WeaponSet
    THEN LET r == weaponset_scan(properties, [weapons |-> <<>>, conditions |-> None])
         IN [err |-> "",
             properties |-> DictSet(DictSet(section.properties, K.weapons, List(r.weapons)),
                                    K.conditions, r.conditions)]
    ELSE IF section.type = W.ArmorSet
    THEN LET r == armorset_scan(properties,
                      [armors |-> <<>>, conditions |-> None, properties |-> section.properties])
         IN [err |-> "",
             properties |-> DictSet(DictSet(r.properties, K.armors, List(r.armors)),
                                    K.conditions, r.conditions)]
    ELSE IF section.type = W.Prerequisites
    THEN [err |-> "",
          properties |-> DictSet(section.properties, K.prerequisites,
                                 List(prerequisites_scan(properties, <<>>)))]
    ELSE generic_scan(properties, [err |-> "", properties |-> section.properties])

\* The definition current_object refers to, and the section current_section
\* refers to.
CurrentObject(st) == DictGet(st.objects, st.current_object[1])
CurrentSection(st) ==
    DictGet(DictGet(st.objects, st.current_section[1][1]).sections, st.current_section[1][2])

\* st with the section that current_section refers to replaced by sec.
WithCurrentSection(st, sec) ==
    LET ref == st.current_section[1]
        obj == DictGet(st.objects, ref[1])
    IN [st EXCEPT !.objects =
           DictSet(@, ref[1], [obj EXCEPT !.sections = DictSet(@, ref[2], sec)])]

\* Lines 63-80: a definition line.
object_definition(st, line, line_num, label) ==
    LET d == _parse_object_definition(line)
    IN IF d # <<>> /\ d[1] # <<>> /\ d[2] # <<>>
       THEN LET n1 == IF Contains(d[2], <<"=">>) THEN remove_char(d[2], "=") ELSE d[2]
                n2 == IF StartsWith(n1, <<" ">>) THEN split_char(n1, " ", <<>>)[2] ELSE n1
            IN [st EXCEPT
                  !.objects = DictSet(@, n2,
                      [type |-> d[1], name |-> n2, source_file |-> label,
                       properties |-> <<>>, sections |-> <<>>, line_number |-> line_num]),
                  !.current_object = <<n2>>,
                  !.section_stack = <<>>,
                  !.in_section = FALSE]
       ELSE st

\* A variant of end_statement that closes a section without taking it off
\* the stack.
end_statement_no_pop(st) ==
    IF st.in_section /\ st.current_section # <<>>
    THEN [st EXCEPT !.in_section = FALSE, !.current_section = <<>>]
    ELSE [st EXCEPT !.current_object = <<>>]

\* Lines 83-99: a line that is End.
end_statement(st) ==
    IF st.in_section /\ st.current_section # <<>>
    THEN LET sec  == CurrentSection(st)
             raw  == [sec EXCEPT !.properties = DictSet(@, K.raw, List(st.section_properties))]
             r    == _process_section_properties(raw, st.section_properties)
             st1  == IF st.section_properties = <<>> THEN st
                     ELSE IF r.err # ""
                     THEN [WithCurrentSection(st, [raw EXCEPT !.properties = r.properties])
                              EXCEPT !.error = r.err]
                     ELSE [WithCurrentSection(st, [raw EXCEPT !.properties = r.properties])
                              EXCEPT !.section_properties = <<>>]
         IN IF st1.error # "" THEN st1
            ELSE IF st1.section_stack # <<>>
            THEN LET popped == SubSeq(st1.section_stack, 1, Len(st1.section_stack) - 1)
                 IN [st1 EXCEPT
                       !.section_stack = popped,
                       !.current_section =
                           IF popped # <<>> THEN <<popped[Len(popped)]>> ELSE <<>>,
                       !.in_section = popped # <<>>]
            ELSE [st1 EXCEPT !.in_section = FALSE, !.current_section = <<>>]
    ELSE [st EXCEPT !.current_object = <<>>]

\* Lines 102-135: a line inside a definition and outside every section.
definition_line(st, line) ==
    LET name == st.current_object[1]
        obj  == CurrentObject(st)
    IN IF line \in {W.WeaponSet, W.ArmorSet, W.Prerequisites, W.Conditions}
       THEN [st EXCEPT
               !.in_section = TRUE,
               !.current_section = << <<name, line>> >>,
               !.objects = DictSet(@, name,
                   [obj EXCEPT !.sections =
                       DictSet(@, line, [type |-> line, tag |-> <<>>, properties |-> <<>>])]),
               !.section_properties = <<>>,
               !.section_stack = Append(@, <<name, line>>)]
       ELSE IF Contains(line, <<"=">>) /\ Contains(line, W.ModuleTag)
       THEN LET left == split_ws(strip(split_char(line, "=", <<>>)[1]), <<>>)
            IN IF left = <<>> THEN [st EXCEPT !.error = "IndexError"]
               ELSE LET section_type == left[1]
                        module_tag   == left[Len(left)]
                    IN [st EXCEPT
                          !.objects = DictSet(@, name,
                              [obj EXCEPT !.sections =
                                  DictSet(@, module_tag,
                                      [type |-> section_type, tag |-> <<module_tag>>,
                                       properties |-> <<>>])]),
                          !.section_stack = Append(@, <<name, module_tag>>),
                          !.current_section = << <<name, module_tag>> >>,
                          !.in_section = TRUE,
                          !.section_properties = <<>>]
       ELSE LET r == _parse_property(line, obj.properties)
            IN [st EXCEPT
                  !.objects = DictSet(@, name, [obj EXCEPT !.properties = r.properties]),
                  !.error = r.err]

\* Lines 56-140: the body of the for loop of parse_ini_content for one line.
parse_line(st, line, line_num, label) ==
    LET line_stripped == strip(line)
    IN IF line_stripped = <<>> \/ Head(line_stripped) = ";" THEN st
       ELSE IF _is_object_definition(line_stripped)
       THEN object_definition(st, line_stripped, line_num, label)
       ELSE IF line_stripped = W.End THEN end_statement(st)
       ELSE IF st.current_object # <<>> /\ ~st.in_section
       THEN definition_line(st, line_stripped)
       ELSE IF st.current_object # <<>> /\ st.in_section /\ st.current_section # <<>>
       THEN [st EXCEPT !.section_properties = Append(@, line_stripped)]
       ELSE st

\* parse_ini_content(content, source_file) on the lines from line_num on: the
\* locals when the loop ends or an exception leaves it.
RECURSIVE parse_lines(_, _, _, _)
parse_lines(st, lines, line_num, label) ==
    IF lines = <<>> \/ st.error # "" THEN st
    ELSE parse_lines(parse_line(st, Head(lines), line_num, label),
                     Tail(lines), line_num + 1, label)

parse_ini_content(content, label) ==
    parse_lines(ParserStart, split_lines(content), 0, label)


\* ------------------------------------------------------------------ graph
\* d.get(k, default)
DictGetOr(d, k, default) == IF DictHas(d, k) THEN DictGet(d, k) ELSE default

\* if k not in d: d[k] = []; d[k].append(v)
DictAppend(d, k, v) == DictSet(d, k, Append(DictGetOr(d, k, <<>>), v))

\* The relationship maps as line 256 creates them.
NoEdges ==
    [unit_weapons |-> <<>>, weapon_units |-> <<>>, unit_armor |-> <<>>,
     unit_locomotor |-> <<>>, unit_general |-> <<>>, general_units |-> <<>>,
     upgrade_units |-> <<>>, unit_upgrades |-> <<>>, prerequisites |-> <<>>,
     enables |-> <<>>]

\* What a for loop over a property value goes through: the elements of a
\* list, the characters of a str.
Elements(v) ==
    IF v.kind = "list" THEN v.v
    ELSE IF v.kind = "str" THEN [i \in 1..Len(v.v) |-> <<v.v[i]>>]
    ELSE <<>>

general_mapping ==
    << <<<<"A", "m", "e", "r", "i", "c", "a", "I", "n", "f", "a", "n", "t", "r", "y", ".", "i", "n", "i">>,
         <<"A", "m", "e", "r", "i", "c", "a">>>>,
       <<<<"A", "m", "e", "r", "i", "c", "a", "V", "e", "h", "i", "c", "l", "e", ".", "i", "n", "i">>,
         <<"A", "m", "e", "r", "i", "c", "a">>>>,
       <<<<"A", "m", "e", "r", "i", "c", "a", "A", "i", "r", ".", "i", "n", "i">>,
         <<"A", "m", "e", "r", "i", "c", "a">>>>,
       <<<<"C", "h", "i", "n", "a", "I", "n", "f", "a", "n", "t", "r", "y", ".", "i", "n", "i">>,
         <<"C", "h", "i", "n", "a">>>>,
       <<<<"C", "h", "i", "n", "a", "V", "e", "h", "i", "c", "l", "e", ".", "i", "n", "i">>,
         <<"C", "h", "i", "n", "a">>>>,
       <<<<"C", "h", "i", "n", "a", "A", "i", "r", ".", "i", "n", "i">>,
         <<"C", "h", "i", "n", "a">>>>,
       <<<<"G", "L", "A", "I", "n", "f", "a", "n", "t", "r", "y", ".", "i", "n", "i">>,
         <<"G", "L", "A">>>>,
       <<<<"G", "L", "A", "V", "e", "h", "i", "c", "l", "e", ".", "i", "n", "i">>,
         <<"G", "L", "A">>>>,
       <<<<"A", "i", "r", "f", "o", "r", "c", "e", "G", "e", "n", "e", "r", "a", "l", ".", "i", "n", "i">>,
         <<"A", "i", "r", "f", "o", "r", "c", "e", "G", "e", "n", "e", "r", "a", "l">>>>,
       <<<<"L", "a", "s", "e", "r", "G", "e", "n", "e", "r", "a", "l", ".", "i", "n", "i">>,
         <<"L", "a", "s", "e", "r", "G", "e", "n", "e", "r", "a", "l">>>>,
       <<<<"S", "u", "p", "e", "r", "w", "e", "a", "p", "o", "n", "G", "e", "n", "e", "r", "a", "l", ".", "i", "n", "i">>,
         <<"S", "u", "p", "e", "r", "w", "e", "a", "p", "o", "n", "G", "e", "n", "e", "r", "a", "l">>>>,
       <<<<"I", "n", "f", "a", "n", "t", "r", "y", "G", "e", "n", "e", "r", "a", "l", ".", "i", "n", "i">>,
         <<"I", "n", "f", "a", "n", "t", "r", "y", "G", "e", "n", "e", "r", "a", "l">>>>,
       <<<<"T", "a", "n", "k", "G", "e", "n", "e", "r", "a", "l", ".", "i", "n", "i">>,
         <<"T", "a", "n", "k", "G", "e", "n", "e", "r", "a", "l">>>>,
       <<<<"D", "e", "m", "o", "G", "e", "n", "e", "r", "a", "l", ".", "i", "n", "i">>,
         <<"D", "e", "m", "o", "G", "e", "n", "e", "r", "a", "l">>>>,
       <<<<"C", "h", "e", "m", "i", "c", "a", "l", "G", "e", "n", "e", "r", "a", "l", ".", "i", "n", "i">>,
         <<"C", "h", "e", "m", "i", "c", "a", "l", "G", "e", "n", "e", "r", "a", "l">>>>,
       <<<<"S", "t", "e", "a", "l", "t", "h", "G", "e", "n", "e", "r", "a", "l", ".", "i", "n", "i">>,
         <<"S", "t", "e", "a", "l", "t", "h", "G", "e", "n", "e", "r", "a", "l">>>>,
       <<<<"B", "o", "s", "s", "G", "e", "n", "e", "r", "a", "l", ".", "i", "n", "i">>,
         <<"B", "o", "s", "s", "G", "e", "n", "e", "r", "a", "l">>>> >>

_extract_general_from_path(path) ==
    LET parts    == split_char(path, "\\", <<>>)
        filename == parts[Len(parts)]
    IN IF DictHas(general_mapping, filename) THEN <<DictGet(general_mapping, filename)>>
       ELSE <<>>

\* Lines 278-289: the loop over the entries of a weapons list.
RECURSIVE weapons_loop(_, _, _)
weapons_loop(weapons, obj_name, acc) ==
    IF weapons = <<>> THEN acc
    ELSE LET weapon_info == Head(weapons)
             weapon_name == weapon_info.weapon
         IN IF weapon_name # <<>>
            THEN weapons_loop(Tail(weapons), obj_name,
                     [acc EXCEPT
                        !.names = Append(@, weapon_name),
                        !.rel.weapon_units = DictAppend(@, weapon_name, obj_name)])
            ELSE weapons_loop(Tail(weapons), obj_name, acc)

\* Lines 275-292.
weapon_edges(rel, obj_name, obj_data) ==
    IF DictHas(obj_data.sections, W.WeaponSet)
    THEN LET weapon_set == DictGet(obj_data.sections, W.WeaponSet)
             weapons    == DictGetOr(weapon_set.properties, K.weapons, List(<<>>))
             r          == weapons_loop(weapons.v, obj_name,
                                        [names |-> <<>>, rel |-> rel])
         IN IF weapons.kind = "str"
            THEN \* weapon_info is a character of the str, which has no get
                 [err |-> IF weapons.v # <<>> THEN "AttributeError" ELSE "", rel |-> rel]
            ELSE IF r.names # <<>>
            THEN [err |-> "",
                  rel |-> [r.rel EXCEPT !.unit_weapons = DictSet(@, obj_name, r.names)]]
            ELSE [err |-> "", rel |-> r.rel]
    ELSE [err |-> "", rel |-> rel]

\* A variant of armor_edges that records the last armor of the list.
armor_edges_last(rel, obj_name, obj_data) ==
    IF DictHas(obj_data.sections, W.ArmorSet)
    THEN LET armors == Elements(DictGetOr(DictGet(obj_data.sections, W.ArmorSet).properties,
                                          K.armors, List(<<>>)))
         IN IF armors # <<>>
            THEN [rel EXCEPT !.unit_armor = DictSet(@, obj_name, armors[Len(armors)])]
            ELSE rel
    ELSE rel

\* Lines 295-300.
armor_edges(rel, obj_name, obj_data) ==
    IF DictHas(obj_data.sections, W.ArmorSet)
    THEN LET armor_set == DictGet(obj_data.sections, W.ArmorSet)
             armors    == Elements(DictGetOr(armor_set.properties, K.armors, List(<<>>)))
         IN IF armors # <<>>
            THEN [rel EXCEPT !.unit_armor = DictSet(@, obj_name, armors[1])]
            ELSE rel
    ELSE rel

\* Lines 303-310.
locomotor_edges(rel, obj_name, obj_data) ==
    IF DictHas(obj_data.properties, W.Locomotor)
    THEN LET loco_value == DictGet(obj_data.properties, W.Locomotor)
         IN IF loco_value.kind = "str" /\ Contains(loco_value.v, <<" ">>)
            THEN LET parts == split_ws(loco_value.v, <<>>)
                 IN IF Len(parts) >= 2
                    THEN [rel EXCEPT !.unit_locomotor = DictSet(@, obj_name, parts[Len(parts)])]
                    ELSE rel
            ELSE rel
    ELSE rel

RECURSIVE enables_loop(_, _, _)
enables_loop(prereqs, obj_name, enables) ==
    IF prereqs = <<>> THEN enables
    ELSE enables_loop(Tail(prereqs), obj_name, DictAppend(enables, Head(prereqs), obj_name))

\* A variant of prerequisite_edges that records the forward edges only.
prerequisite_edges_forward_only(rel, obj_name, obj_data) ==
    IF DictHas(obj_data.sections, W.Prerequisites)
    THEN LET prereqs == DictGetOr(DictGet(obj_data.sections, W.Prerequisites).properties,
                                  K.prerequisites, List(<<>>))
         IN IF Elements(prereqs) # <<>>
            THEN [rel EXCEPT !.prerequisites = DictSet(@, obj_name, prereqs)]
            ELSE rel
    ELSE rel

\* Lines 313-321.  The prerequisites value is stored as it is (a list, or the
\* str of a module section keyed Prerequisites).
prerequisite_edges(rel, obj_name, obj_data) ==
    IF DictHas(obj_data.sections, W.Prerequisites)
    THEN LET prereq_section == DictGet(obj_data.sections, W.Prerequisites)
             prereqs == DictGetOr(prereq_section.properties, K.prerequisites, List(<<>>))
         IN IF Elements(prereqs) # <<>>
            THEN [rel EXCEPT
                    !.prerequisites = DictSet(@, obj_name, prereqs),
                    !.enables = enables_loop(Elements(prereqs), obj_name, @)]
            ELSE rel
    ELSE rel

\* Lines 324-333.
general_edges(rel, obj_name, obj_data) ==
    IF StartsWith(obj_data.source_file, W.Object)
    THEN LET general == _extract_general_from_path(obj_data.source_file)
         IN IF general # <<>>
            THEN [rel EXCEPT
                    !.unit_general = DictSet(@, obj_name, general[1]),
                    !.general_units = DictAppend(@, general[1], obj_name)]
            ELSE rel
    ELSE rel

\* Lines 336-348: the loop over the sections of one definition.  A TriggeredBy
\* value of such a section is always a str.
RECURSIVE upgrade_edges(_, _, _)
upgrade_edges(rel, obj_name, sections) ==
    IF sections = <<>> THEN rel
    ELSE LET section_data == Head(sections)[2]
         IN IF section_data.type = W.ObjectCreationUpgrade
               /\ DictHas(section_data.properties, W.TriggeredBy)
            THEN LET upgrade_name == DictGet(section_data.properties, W.TriggeredBy).v
                 IN upgrade_edges(
                        [rel EXCEPT
                           !.unit_upgrades = DictAppend(@, obj_name, upgrade_name),
                           !.upgrade_units = DictAppend(@, upgrade_name, obj_name)],
                        obj_name, Tail(sections))
            ELSE upgrade_edges(rel, obj_name, Tail(sections))

\* Lines 270-348: the body of the loop of _build_relationships for one object.
scan_object(rel, obj_name, obj_data) ==
    LET w == weapon_edges(rel, obj_name, obj_data)
    IN IF w.err # "" THEN w
       ELSE [err |-> "",
             rel |-> upgrade_edges(
                         general_edges(
                             prerequisite_edges(
                                 locomotor_edges(
                                     armor_edges(w.rel, obj_name, obj_data),
                                     obj_name, obj_data),
                                 obj_name, obj_data),
                             obj_name, obj_data),
                         obj_name, obj_data.sections)]

RECURSIVE scan_objects(_, _)
scan_objects(objs, acc) ==
    IF objs = <<>> \/ acc.err # "" THEN acc
    ELSE scan_objects(Tail(objs), scan_object(acc.rel, Head(objs)[1], Head(objs)[2]))

\* _build_relationships(objs) on the map objs: the exception it raised ("" for none)
\* and self.relationships as the call leaves it.
_build_relationships(objs) ==
    scan_objects(objs, [err |-> "", rel |-> NoEdges])

\* ------------------------------------------------------------------ aggregate map
\* The characters of the code points 0..127, a control character other than
\* tab, newline and return written in caret notation, the grave accent as ^96.
Chars ==
    << "^@", "^A", "^B", "^C", "^D", "^E", "^F", "^G", "^H", "\t", "\n", "^K", "^L", "\r", "^N", "^O",
       "^P", "^Q", "^R", "^S", "^T", "^U", "^V", "^W", "^X", "^Y", "^Z", "^[", "^28", "^]", "^^", "^_",
       " ", "!", "\"", "#", "$", "%", "&", "'", "(", ")", "*", "+", ",", "-", ".", "/",
       "0", "1", "2", "3", "4", "5", "6", "7", "8", "9", ":", ";", "<", "=", ">", "?",
       "@", "A", "B", "C", "D", "E", "F", "G", "H", "I", "J", "K", "L", "M", "N", "O",
       "P", "Q", "R", "S", "T", "U", "V", "W", "X", "Y", "Z", "[", "\\", "]", "^", "_",
       "^96", "a", "b", "c", "d", "e", "f", "g", "h", "i", "j", "k", "l", "m", "n", "o",
       "p", "q", "r", "s", "t", "u", "v", "w", "x", "y", "z", "{", "|", "}", "~", "^?" >>

\* The str of ASCII code points.
chars(codes) == [i \in 1..Len(codes) |-> Chars[codes[i] + 1]]

\* The bytes of an ASCII text.
ord(c) == CHOOSE b \in 0..127 : Chars[b + 1] = c
encode(t) == [i \in 1..Len(t) |-> ord(t[i])]

\* data.decode('utf-8', errors='ignore'): a byte that starts no valid sequence
\* is dropped.  (A valid multi-byte sequence, which no file of the model
\* holds, would give one character.)
decode(data) == chars(SelectSeq(data, LAMBDA b : b < 128))

\* path.lower().endswith('.ini')
is_ini(path) ==
    /\ Len(path) >= 4
    /\ [i \in 1..4 |-> LET c == path[Len(path) - 4 + i]
                       IN IF c >= 65 /\ c <= 90 THEN c + 32 ELSE c] = <<46, 105, 110, 105>>

\* d.update(e)
RECURSIVE DictUpdate(_, _)
DictUpdate(d, e) ==
    IF e = <<>> THEN d ELSE DictUpdate(DictSet(d, Head(e)[1], Head(e)[2]), Tail(e))

\* What load_ini_to_nodes and parse_all_ini_files do with one entry before
\* they merge: decode and parse.  The error is the exception raised (None has
\* no decode).
parse_entry(entry) ==
    IF entry.data = NoBytes THEN [ParserStart EXCEPT !.error = "AttributeError"]
    ELSE parse_ini_content(decode(entry.data), chars(entry.path))

\* Lines 20-30: the loop of parse_all_ini_files; the bare except drops the
\* file whose decoding or parsing raised.
RECURSIVE parse_entries(_, _)
parse_entries(ents, acc) ==
    LET merged(entry, st) == IF is_ini(entry.path) /\ st.error = ""
                             THEN DictUpdate(acc, st.objects)
                             ELSE acc
    IN IF ents = <<>> THEN acc
       ELSE parse_entries(Tail(ents), merged(Head(ents), parse_entry(Head(ents))))

\* parse_all_ini_files(big_editor) on the entries of its archive: the
\* exception of the build, the map it would return and the edge maps it leaves.
parse_all_ini_files(ents) ==
    LET returned(objs, b) == [err |-> b.err, all_objects |-> objs, relationships |-> b.rel]
        built(objs)       == returned(objs, _build_relationships(objs))
    IN built(parse_entries(ents, <<>>))

\* integrate() with an archive of these entries: the map is assigned when
\* parse_all_ini_files returns.
integrate(ents) ==
    LET assigned(r) == /\ relationships' = <<r.relationships>>
                       /\ all_objects' = IF r.err = "" THEN r.all_objects ELSE all_objects
                       /\ UNCHANGED load_error
    IN assigned(parse_all_ini_files(ents))

\* Lines 507-519 of load_ini_to_nodes(entry).  What follows them draws on the
\* canvas and changes neither the map nor the edge maps.
load_ini_to_nodes(entry) ==
    LET built(objs, b) == /\ all_objects' = objs
                          /\ relationships' = <<b.rel>>
                          /\ load_error' = b.err
        merged(objs)   == built(objs, _build_relationships(objs))
        parsed(st)     == IF st.error # ""
                          THEN /\ load_error' = st.error
                               /\ UNCHANGED <<all_objects, relationships>>
                          ELSE merged(DictUpdate(all_objects, st.objects))
    IN parsed(parse_entry(entry))

\* load_file_content(entry) as _setup_auto_load wraps it: the viewers are
\* filled, then an entry whose path ends in .ini is loaded into the node
\* editor.  (integrate wraps it once more at every call; the wrappers repeat
\* the same load.)
load_file_content(entry) ==
    IF is_ini(entry.path) THEN load_ini_to_nodes(entry) ELSE UNCHANGED graphVars

\* ------------------------------------------------------------------ editor
NoArgs == [file |-> "", path |-> <<>>, data |-> <<>>, entry |-> 0]

\* The archive object of the editor, when there is one.
TheArchive == archive[1]
\* The FileEntry objects the archive lists, in list order.
Entries == IF archive = <<>> THEN <<>>
           ELSE [i \in 1..Len(TheArchive.entries) |-> heap[TheArchive.entries[i]]]

\* What a reader of an archive sees of its entries: path, size, payload.
Summary(ents) == [i \in 1..Len(ents) |-> <<ents[i].path, ents[i].size, ents[i].data>>]

\* Records n..1 of a well-formed archive end with a NUL inside the file, hold
\* ASCII paths and point at payload bytes inside the file.
RECURSIVE WellFormedRecords(_, _, _, _)
WellFormedRecords(data, pos, n, skip) ==
    IF n = 0 THEN TRUE
    ELSE LET p0 == pos + skip
             s  == read_string(data, p0 + 8, <<>>)
         IN /\ p0 + 8 <= Len(data)
            /\ s.pos <= Len(data) /\ s.pos > p0 + 8 /\ data[s.pos] = 0
            /\ \A i \in (p0 + 9)..s.pos : data[i] < 128
            /\ read_uint32_be(Slice(data, p0, 4)) + read_uint32_be(Slice(data, p0 + 4, 4))
                   <= Len(data)
            /\ WellFormedRecords(data, s.pos, n - 1, skip)

WellFormed(data) ==
    /\ data # NoBytes
    /\ Len(data) >= 12
    /\ Slice(data, 0, 4) \in {BIG4, BIGF, BIG5}
    /\ IF Slice(data, 0, 4) = BIG5
       THEN Len(data) >= 15
            /\ WellFormedRecords(data, 15, read_uint32_be(Slice(data, 8, 4)), 1)
       ELSE Len(data) >= 16
            /\ WellFormedRecords(data, 16, read_uint32_be(Slice(data, 8, 4)), 0)

NoRoundTrip == [stage |-> "none", sum |-> <<>>, path |-> "", orig |-> <<>>]

\* populate_tree: the tree shows the entries of the archive
populate_tree(a) == { a.entries[i] : i \in 1..Len(a.entries) }

\* The state after BIGArchiveEditor.__init__, with in.big holding one of the
\* files of S.  out.big does not exist yet; ro.big names a place where no file
\* can be opened, for reading or for writing.
EditorStart(S) ==
    /\ disk \in { [f \in Files |-> IF f = "in.big" THEN b ELSE NoBytes] : b \in S }
    /\ archive = <<>>
    /\ current_file = ""
    /\ current_entry = 0
    /\ entry_map = {}
    /\ heap = <<>>
    /\ op = "init"
    /\ args = NoArgs
    /\ result = "ok"
    /\ written = <<>>
    /\ rt = NoRoundTrip
    /\ prev = [op |-> "init", args |-> NoArgs, result |-> "ok", written |-> <<>>]
    /\ steps = 0

\* No call of parse_ini_content is under way.
ParserIdle ==
    /\ text = <<>>
    /\ source_file = <<>>
    /\ parser = ParserStart

\* EnhancedNodeEditorIntegration.__init__ and SmartINIParser.__init__; the
\* integrate() of startup finds no archive.
GraphIdle ==
    /\ all_objects = <<>>
    /\ relationships = <<>>
    /\ load_error = ""

InitWith(S) == EditorStart(S) /\ ParserIdle /\ GraphIdle

\* The archives the editing runs start from: two equal entries and two
\* different entries, both scattered, and four files that are not well-formed.
EditInputs ==
    LET one == <<[path |-> PathA, data |-> <<7>>]>>
        ok4 == InputArchive(BIG4, one, "packed")
    IN { InputArchive(BIG5, one \o one, "scattered"),
         InputArchive(BIGF, <<[path |-> PathBC, data |-> <<8, 9>>]>> \o one, "scattered"),
         <<65, 66, 67, 68>> \o Slice(ok4, 4, Len(ok4)),
         <<66, 73, 71, 88>> \o Slice(ok4, 4, Len(ok4)),
         BIGF \o Slice(ok4, 4, 4) \o <<0, 0, 0, 2>> \o Slice(ok4, 12, Len(ok4)),
         Slice(ok4, 0, 20) \o <<0, 0, 0, 3>> \o Slice(ok4, 24, Len(ok4)) }

Init == InitWith(EditInputs)

\* open_archive with the dialog answering f.  integrate() (line 484) runs
\* inside the try block, after a load that returned.
open_archive(f) ==
    LET r == load(disk[f])
        ids == [i \in 1..Len(r.entries) |-> Len(heap) + i]
        a == [r.archive EXCEPT !.entries = ids]
        integrated(g) ==
            IF r.err = "" /\ g.err = ""
            THEN /\ current_file' = f
                 /\ entry_map' = populate_tree(a)
                 /\ result' = "ok"
                 /\ rt' = [stage |-> "loaded", sum |-> Summary(r.entries), path |-> f,
                           orig |-> IF rt.stage = "saved" /\ rt.path = f
                                    THEN <<rt.sum>> ELSE <<>>]
            ELSE /\ result' = IF r.err # "" THEN r.err ELSE g.err
                 /\ rt' = NoRoundTrip
                 /\ UNCHANGED <<current_file, entry_map>>
    IN /\ Len(heap) + Len(r.entries) <= MaxIds
       /\ archive' = <<a>>
       /\ heap' = heap \o r.entries
       /\ op' = "open_archive"
       /\ args' = [NoArgs EXCEPT !.file = f]
       /\ written' = <<>>
       /\ integrated(parse_all_ini_files(r.entries))
       /\ IF r.err = "" THEN integrate(r.entries) ELSE UNCHANGED graphVars
       /\ UNCHANGED <<disk, current_entry, parserVars>>

\* The try block of save_archive / save_archive_as on target f.
do_save(f) ==
    LET r == save(TheArchive, heap, disk[f], Writable(f))
    IN /\ heap' = r.heap
       /\ disk' = [disk EXCEPT ![f] = r.file]
       /\ written' = r.written
       /\ result' = IF r.err = "" THEN "ok" ELSE r.err
       /\ rt' = IF r.err = "" /\ rt.stage \in {"loaded", "saved"} /\ rt.orig = <<>>
                   /\ WellFormed(TheArchive.original_data)
                THEN [rt EXCEPT !.stage = "saved", !.path = f]
                ELSE NoRoundTrip
       /\ UNCHANGED <<archive, current_entry, parserVars, graphVars>>

\* save_archive_as with the dialog answering f.
save_archive_as(f) ==
    /\ op' = "save_archive_as"
    /\ args' = [NoArgs EXCEPT !.file = f]
    /\ IF archive = <<>>
       THEN /\ result' = "warning"
            /\ written' = <<>>
            /\ UNCHANGED <<disk, archive, heap, current_file, current_entry, rt, parserVars, graphVars>>
       ELSE /\ do_save(f)
            /\ current_file' = IF result' = "ok" THEN f ELSE current_file
    /\ UNCHANGED entry_map

\* save_archive: with an archive and a current file, save there and refresh
\* the tree; otherwise it hands over to save_archive_as.
save_archive ==
    IF archive # <<>> /\ current_file # ""
    THEN /\ do_save(current_file)
         /\ op' = "save_archive"
         /\ args' = [NoArgs EXCEPT !.file = current_file]
         /\ entry_map' = IF result' = "ok" THEN populate_tree(TheArchive) ELSE entry_map
         /\ UNCHANGED current_file
    ELSE \E f \in Files : save_archive_as(f)

\* on_tree_select on the tree item of entry e.
on_tree_select(e) ==
    /\ e \in entry_map
    /\ current_entry' = e
    /\ op' = "on_tree_select"
    /\ args' = [NoArgs EXCEPT !.entry = e]
    /\ result' = "ok"
    /\ load_file_content(heap[e])
    /\ UNCHANGED <<disk, archive, current_file, entry_map, heap, written, rt, parserVars>>

\* The editor's add_file, the dialogs answering path p and a file holding d.
editor_add_file(p, d) ==
    /\ archive # <<>>
    /\ Len(heap) < MaxIds
    /\ LET r == add_file(TheArchive, heap, p, d)
       IN /\ archive' = <<r.archive>>
          /\ heap' = r.heap
          /\ entry_map' = populate_tree(r.archive)
    /\ op' = "add_file"
    /\ args' = [NoArgs EXCEPT !.path = p, !.data = d, !.entry = Len(heap) + 1]
    /\ result' = "ok"
    /\ rt' = NoRoundTrip
    /\ UNCHANGED <<disk, current_file, current_entry, written, parserVars, graphVars>>

\* delete_file, the confirmation answered yes.  The ValueError of remove_file
\* leaves the handler before current_entry is cleared.
delete_file ==
    /\ current_entry # 0
    /\ LET r == remove_file(TheArchive, current_entry)
       IN /\ archive' = <<r.archive>>
          /\ IF r.err = ""
             THEN /\ current_entry' = 0
                  /\ entry_map' = populate_tree(r.archive)
                  /\ result' = "ok"
             ELSE /\ result' = r.err
                  /\ UNCHANGED <<current_entry, entry_map>>
    /\ op' = "delete_file"
    /\ args' = [NoArgs EXCEPT !.entry = current_entry]
    /\ rt' = NoRoundTrip
    /\ UNCHANGED <<disk, current_file, heap, written, parserVars, graphVars>>

\* replace_file, the dialog answering a file holding d.
replace_file(d) ==
    /\ current_entry # 0
    /\ heap' = update_file(heap, current_entry, d)
    /\ entry_map' = populate_tree(TheArchive)
    /\ op' = "replace_file"
    /\ args' = [NoArgs EXCEPT !.data = d, !.entry = current_entry]
    /\ result' = "ok"
    /\ rt' = NoRoundTrip
    /\ load_file_content(heap'[current_entry])
    /\ UNCHANGED <<disk, archive, current_file, current_entry, written, parserVars>>

\* One more handler call, while the run is shorter than MaxSteps.
Tick ==
    /\ steps < MaxSteps
    /\ steps' = steps + 1
    /\ prev' = [op |-> op, args |-> args, result |-> result, written |-> written]

Next ==
    \/ \E f \in Files : open_archive(f) /\ Tick
    \/ save_archive /\ Tick
    \/ \E f \in Files : save_archive_as(f) /\ Tick
    \/ \E e \in 1..MaxIds : on_tree_select(e) /\ Tick
    \/ \E p \in AddPaths, d \in AddData : editor_add_file(p, d) /\ Tick
    \/ delete_file /\ Tick
    \/ \E d \in NewData : replace_file(d) /\ Tick

Spec == Init /\ [][Next]_vars

\* Load and save alone, from every generated input file.
CodecInit == InitWith(Inputs)
CodecNext ==
    \/ \E f \in Files : open_archive(f) /\ Tick
    \/ save_archive /\ Tick
    \/ \E f \in Files : save_archive_as(f) /\ Tick
CodecSpec == CodecInit /\ [][CodecNext]_vars

\* ------------------------------------------------------------------ parser runs
\* The lines a text is made of: definition lines, properties, section and
\* module lines, keyword-led lines inside a section, a comment.
L ==
    [Weapon |-> <<"W", "e", "a", "p", "o", "n", " ", "G", "u", "n">>,
     Object |-> <<"O", "b", "j", "e", "c", "t", " ", "T", "a", "n", "k">>,
     Damage |-> <<" ", " ", "D", "a", "m", "a", "g", "e", " ", "=", " ", "5", "0">>,
     Range |-> <<"R", "a", "n", "g", "e", "=", "9", " ", " ">>,
     End |-> <<"E", "n", "d">>,
     Locomotor |-> <<" ", " ", "L", "o", "c", "o", "m", "o", "t", "o", "r", " ", "=", " ", "S", "E", "T", "_", "N", "O", "R", "M", "A", "L", " ", "L", "o", "c", "o">>,
     Draw |-> <<"D", "r", "a", "w", " ", "=", " ", "W", "3", "D", " ", "M", "o", "d", "u", "l", "e", "T", "a", "g", "_", "0", "1">>,
     WeaponSet |-> <<" ", " ", "W", "e", "a", "p", "o", "n", "S", "e", "t">>,
     Show |-> <<"S", "h", "o", "w", "S", "u", "b", "O", "b", "j", "e", "c", "t", " ", "G", "u", "n">>,
     Primary |-> <<" ", " ", " ", " ", "W", "e", "a", "p", "o", "n", " ", "=", " ", "P", "R", "I", "M", "A", "R", "Y", " ", "G", "u", "n">>,
     SecondaryFX |-> <<" ", " ", " ", " ", "W", "e", "a", "p", "o", "n", " ", "=", " ", "S", "E", "C", "O", "N", "D", "A", "R", "Y", " ", "G", "u", "n", "F", "X">>,
     Armor |-> <<"A", "r", "m", "o", "r", " ", "=", " ", "P", "l", "a", "t", "e">>,
     Comment |-> <<";", " ", "n", "o", "t", "e">>,
     ShowEq |-> <<"S", "h", "o", "w", "S", "u", "b", "O", "b", "j", "e", "c", "t", " ", "=", " ", "G", "u", "n">>,
     TagOnly |-> <<"=", " ", "M", "o", "d", "u", "l", "e", "T", "a", "g", "_", "0", "1">>]
LinePool ==
    { L.Weapon, L.Object, L.Damage, L.Range, L.End, L.Locomotor, L.Draw, L.WeaponSet, L.Show,
      L.ShowEq, L.TagOnly }

SourceFiles == { <<"W", ".", "i", "n", "i">>, <<"O", "b", "j", "e", "c", "t", "/", "T", ".", "i", "n", "i">> }

\* Lines in one text.
MaxLines == 4

\* parse_ini_content is called with one of the labels on a text whose lines
\* come one by one.
ParserInit ==
    /\ EditorStart({<<>>})
    /\ GraphIdle
    /\ text = <<>>
    /\ source_file \in SourceFiles
    /\ parser = ParserStart

\* One pass of the for loop, on the line l.
parse_step(l) ==
    /\ Len(text) < MaxLines
    /\ parser.error = ""
    /\ parser' = parse_line(parser, l, Len(text), source_file)
    /\ text' = Append(text, l)
    /\ UNCHANGED <<source_file, codecVars, graphVars>>

ParserNext == \E l \in LinePool : parse_step(l)

ParserSpec == ParserInit /\ [][ParserNext]_vars

\* ------------------------------------------------------------------ claims
\* A call of BIGArchive.save was made by the handler named o with result r.
SaveCalled(o, r) == o \in {"save_archive", "save_archive_as"} /\ r # "warning"

Offsets(h) == [i \in 1..Len(h) |-> h[i].offset]

\* C1: a well-formed archive of any of the three variants (records with
\* NUL-terminated ASCII paths and payload regions inside the file), loaded,
\* saved with no edit in between and loaded again from the saved file, shows
\* the same entries in the same order with the same paths, sizes and payload
\* bytes.
C1_RoundTrip == rt.orig # <<>> => rt.sum = rt.orig[1]

\* A BIG5 archive of two entries, one of them with payload bytes, whose file
\* was laid out differently from the saved one, has been saved to out.big and
\* loaded from there.
C1_Witness ==
    /\ rt.orig # <<>>
    /\ op = "open_archive" /\ result = "ok" /\ args.file = "out.big"
    /\ TheArchive.header = BIG5
    /\ Len(rt.sum) = 2 /\ rt.sum[1] # rt.sum[2]
    /\ disk["in.big"] # disk["out.big"]

\* C2: two consecutive calls of save with no edit between them leave the same
\* offsets in the entries, and the two calls that opened their target emit the
\* same bytes.
C2_SaveIdempotent ==
    [][ (SaveCalled(op, result) /\ SaveCalled(op', result'))
        => /\ Offsets(heap') = Offsets(heap)
           /\ (result # "FileNotFoundError" /\ result' # "FileNotFoundError")
                 => written' = written ]_vars

\* Two saves in a row, both complete, of an archive with an added entry.
C2_Witness ==
    /\ SaveCalled(op, result) /\ result = "ok"
    /\ SaveCalled(prev.op, prev.result) /\ prev.result = "ok"
    /\ written = prev.written
    /\ Len(Entries) >= 2
    /\ \E i \in 1..Len(Entries) : Entries[i].modified

\* C3: a save that fails leaves every entry's offset as it was before the call.
C3_SaveAtomic ==
    [][ (SaveCalled(op', result') /\ result' # "ok") => Offsets(heap') = Offsets(heap) ]_vars

\* C4: a file whose first four bytes are none of BIG4, BIGF, BIG5 is refused
\* by load and gives no entries.
C4_UnknownMagicRefused ==
    (op = "open_archive" /\ disk[args.file] # NoBytes
       /\ Slice(disk[args.file], 0, 4) \notin {BIG4, BIGF, BIG5})
    => (result # "ok" /\ TheArchive.entries = <<>>)

\* C5: a load that fails on the magic or on a cut header or metadata region
\* leaves the editor's archive as it was and puts no entry of the failed input
\* into an entry list.
C5_FailedOpenLeavesArchive ==
    [][ (op' = "open_archive" /\ result' \in {"ValueError", "struct.error"})
        => /\ archive' = archive
           /\ \A i \in 1..Len(TheArchive'.entries) : TheArchive'.entries[i] <= Len(heap) ]_vars

\* C6: add(p, d) appends exactly one new entry with path p, data d, size
\* len(d), modified set; every entry that existed keeps its fields and place.
C6_AddAppends ==
    [][ op' = "add_file"
        => /\ Len(heap') = Len(heap) + 1
           /\ TheArchive'.entries = Append(TheArchive.entries, Len(heap) + 1)
           /\ heap'[Len(heap) + 1].path = args'.path
           /\ heap'[Len(heap) + 1].data = args'.data
           /\ heap'[Len(heap) + 1].size = Len(args'.data)
           /\ heap'[Len(heap) + 1].modified
           /\ \A i \in 1..Len(heap) : heap'[i] = heap[i] ]_vars

\* An entry was added under a path another entry of the archive already has.
C6_Witness ==
    /\ op = "add_file" /\ result = "ok"
    /\ Len(Entries) >= 2
    /\ \E i \in 1..(Len(Entries) - 1) : Entries[i].path = Entries[Len(Entries)].path

\* The position of entry e in the list l (0 when absent).
IndexOf(l, e) == IF InList(l, e) THEN CHOOSE i \in 1..Len(l) : l[i] = e ELSE 0

\* Where save puts the payload of the entry at place i: behind the metadata and
\* the payloads of the entries before it.
PayloadStart(a, h, i) ==
    metadata_end(a.header, [k \in 1..Len(a.entries) |-> h[a.entries[k]]])
    + SumSeq([j \in 1..(i - 1) |-> Len(h[a.entries[j]].data)])

\* C7: update(e, d2) sets e's data to d2, its size to len(d2) and its modified
\* flag, and changes nothing else; the next save writes d2 as e's payload.
C7_UpdateReplaces ==
    [][ /\ op' = "replace_file"
           => /\ heap'[args'.entry] = [heap[args'.entry] EXCEPT
                     !.data = args'.data, !.size = Len(args'.data), !.modified = TRUE]
              /\ \A i \in 1..Len(heap) : i # args'.entry => heap'[i] = heap[i]
              /\ Len(heap') = Len(heap)
              /\ archive' = archive
        /\ (op = "replace_file" /\ SaveCalled(op', result') /\ result' = "ok"
              /\ InList(TheArchive.entries, args.entry))
           => Slice(written',
                    PayloadStart(TheArchive, heap, IndexOf(TheArchive.entries, args.entry)),
                    Len(args.data)) = args.data ]_vars

\* An entry of the archive got a payload of another length, and the save after
\* that completed.
C7_Witness ==
    /\ SaveCalled(op, result) /\ result = "ok"
    /\ prev.op = "replace_file"
    /\ InList(TheArchive.entries, prev.args.entry)
    /\ prev.args.data = <<8, 9>>
    /\ Len(Entries) >= 2

\* The list l without its element at place k.
RemoveAt(l, k) == [i \in 1..(Len(l) - 1) |-> IF i < k THEN l[i] ELSE l[i + 1]]

\* The (offset, size, path) records of a saved file, as load reads them.
Records(data) ==
    LET es == load(data).entries
    IN [i \in 1..Len(es) |-> <<es[i].offset, es[i].size, es[i].path>>]

\* C8: remove(e) takes exactly e out of the list, also when another entry has
\* the same path, size and data; the other entries keep order and contents;
\* the next save writes the count and the records of the entries that are left.
C8_RemoveTakesOne ==
    [][ /\ (op' = "delete_file" /\ result' = "ok")
           => /\ InList(TheArchive.entries, args'.entry)
              /\ ~InList(TheArchive'.entries, args'.entry)
              /\ TheArchive'.entries =
                    RemoveAt(TheArchive.entries, IndexOf(TheArchive.entries, args'.entry))
              /\ heap' = heap
        /\ (op = "delete_file" /\ result = "ok" /\ SaveCalled(op', result') /\ result' = "ok")
           => /\ read_uint32_be(Slice(written', 8, 4)) = Len(TheArchive.entries)
              /\ Records(written') =
                    [i \in 1..Len(TheArchive.entries) |->
                        <<heap'[TheArchive.entries[i]].offset,
                          heap'[TheArchive.entries[i]].size,
                          heap'[TheArchive.entries[i]].path>>] ]_vars

\* The second of two entries with equal path, size and data was removed, the
\* first is still listed, and the archive was saved after that.
C8_Witness ==
    /\ SaveCalled(op, result) /\ result = "ok"
    /\ prev.op = "delete_file" /\ prev.result = "ok"
    /\ Len(Entries) = 1
    /\ TheArchive.entries[1] < prev.args.entry
    /\ heap[prev.args.entry].path = Entries[1].path
    /\ heap[prev.args.entry].data = Entries[1].data

\* C9: add, remove and update never raise.
C9_EditsNeverRaise ==
    op \in {"add_file", "delete_file", "replace_file"} => result = "ok"

\* ------------------------------------------------------------------ parser claims
\* A line `<Keyword> <Name>`: an object keyword, one blank, a name of one token
\* without "=".
IsKeywordLine(l) ==
    LET toks == split_ws(l, <<>>)
    IN /\ Len(toks) = 2
       /\ toks[1] \in Keywords
       /\ ~Contains(toks[2], <<"=">>)
       /\ strip(l) = toks[1] \o <<" ">> \o toks[2]

\* A line `key = value`: one "=", a key of one token before it, a value after
\* it, and no module tag.
IsPropertyLine(l) ==
    LET kv == split_char(l, "=", <<>>)
    IN /\ Len(kv) = 2
       /\ Len(split_ws(kv[1], <<>>)) = 1
       /\ split_ws(kv[2], <<>>) # <<>>
       /\ ~Contains(l, W.ModuleTag)

PropertyKey(l) == split_ws(split_char(l, "=", <<>>)[1], <<>>)[1]
PropertyValue(l) == strip(split_char(l, "=", <<>>)[2])

\* A text of a keyword line, property lines and a closing End.
IsBasicText(t) ==
    /\ Len(t) >= 2
    /\ IsKeywordLine(t[1])
    /\ strip(t[Len(t)]) = W.End
    /\ \A i \in 2..(Len(t) - 1) : IsPropertyLine(t[i])

\* The parse result is the one definition that the basic text t describes.
IsBasicResult(t, label, objs) ==
    /\ Len(objs) = 1
    /\ LET toks == split_ws(t[1], <<>>)
           def  == objs[1][2]
       IN /\ objs[1][1] = toks[2]
          /\ def.name = toks[2]
          /\ def.type = toks[1]
          /\ def.source_file = label
          /\ def.sections = <<>>
          /\ Len(def.properties) = Cardinality({ PropertyKey(t[i]) : i \in 2..(Len(t) - 1) })
          /\ \A i \in 2..(Len(t) - 1) :
                \/ \E j \in (i + 1)..(Len(t) - 1) : PropertyKey(t[j]) = PropertyKey(t[i])
                \/ /\ DictHas(def.properties, PropertyKey(t[i]))
                   /\ DictGet(def.properties, PropertyKey(t[i])) = Str(PropertyValue(t[i]))

\* C10: a text of a keyword line `<Keyword> <Name>`, property lines
\* `key = value` and a closing End yields exactly one definition, stored under
\* Name, with that name, type and source label, no sections, and every
\* property mapped to its stripped value.
C10_BasicParse ==
    (parser.error = "" /\ IsBasicText(text)) => IsBasicResult(text, source_file, parser.objects)

\* The same with every property key other than an object keyword.
BasicParsePlainKeys ==
    (parser.error = "" /\ IsBasicText(text)
       /\ \A i \in 2..(Len(text) - 1) : PropertyKey(text[i]) \notin Keywords)
    => IsBasicResult(text, source_file, parser.objects)

\* Such a text with two property lines has been parsed.
BasicParsePlainKeysReached ==
    /\ IsBasicText(text) /\ Len(text) = 4
    /\ PropertyKey(text[2]) # PropertyKey(text[3])
    /\ \A i \in 2..3 : PropertyKey(text[i]) \notin Keywords

\* ------------------------------------------------------------------ section runs
\* Lines of a unit with sections: keyword-led lines inside a section, a
\* comment, a module line, a plain property.
SectionPool ==
    { L.Object, L.WeaponSet, L.Draw, L.Primary, L.SecondaryFX, L.Armor, L.Damage,
      L.Comment, L.End }

\* Lines in one text of the section runs.
MaxSectionLines == 5

\* One pass of the for loop on a line of SectionPool.
section_step(l) ==
    /\ Len(text) < MaxSectionLines
    /\ parser.error = ""
    /\ parser' = parse_line(parser, l, Len(text), source_file)
    /\ text' = Append(text, l)
    /\ UNCHANGED <<source_file, codecVars, graphVars>>

SectionInit ==
    /\ EditorStart({<<>>})
    /\ GraphIdle
    /\ text = <<>>
    /\ source_file = <<"O", "b", "j", "e", "c", "t", "/", "T", ".", "i", "n", "i">>
    /\ parser = ParserStart

SectionNext == \E l \in SectionPool : section_step(l)

SectionSpec == SectionInit /\ [][SectionNext]_vars

\* ------------------------------------------------------------------ section claims
\* A line `Weapon = <SLOT> <name>`.
IsWeaponLine(l) ==
    LET toks == split_ws(l, <<>>)
    IN Len(toks) = 4 /\ toks[1] = W.Weapon /\ toks[2] = <<"=">>

\* A unit's text up to the End of its WeaponSet: the keyword line, WeaponSet,
\* one or more weapon lines, End.
IsWeaponSetText(t) ==
    /\ Len(t) >= 4
    /\ IsKeywordLine(t[1])
    /\ strip(t[2]) = W.WeaponSet
    /\ \A i \in 3..(Len(t) - 1) : IsWeaponLine(t[i])
    /\ strip(t[Len(t)]) = W.End

\* The {slot, weapon} entries of the weapon lines of t whose name has no "FX".
ExpectedWeapons(t) ==
    LET ws == SelectSeq(SubSeq(t, 3, Len(t) - 1),
                        LAMBDA l : ~Contains(split_ws(l, <<>>)[4], W.FX))
    IN [i \in 1..Len(ws) |->
           [slot |-> split_ws(ws[i], <<>>)[3], weapon |-> split_ws(ws[i], <<>>)[4]]]

\* C11: the text of a unit whose WeaponSet holds lines `Weapon = <SLOT> <name>`
\* yields one definition, the unit, whose WeaponSet section has a weapons list
\* with one {slot, weapon} entry per such line whose name has no "FX", in line
\* order.
C11_WeaponSetFiltering ==
    (parser.error = "" /\ IsWeaponSetText(text))
    => /\ Len(parser.objects) = 1
       /\ LET def == parser.objects[1][2]
          IN /\ def.name = split_ws(text[1], <<>>)[2]
             /\ DictHas(def.sections, W.WeaponSet)
             /\ DictHas(DictGet(def.sections, W.WeaponSet).properties, K.weapons)
             /\ DictGet(DictGet(def.sections, W.WeaponSet).properties, K.weapons)
                   = List(ExpectedWeapons(text))

\* Where the payload region of a saved archive starts: the 12 header bytes,
\* the reserved bytes, and per entry the record overhead, the path and its NUL.
PayloadRegionStart(header, ents) ==
    12 + (IF header = BIG5 THEN 3 ELSE 4)
       + SumSeq([i \in 1..Len(ents) |-> (IF header = BIG5 THEN 9 ELSE 8) + Len(ents[i].path) + 1])

\* C17: after a successful save the payload region of the written file starts
\* at 12 + reserved + the sum of the record sizes, the offset of entry i is
\* that start plus the sizes of the entries before it, the regions are
\* pairwise disjoint and end within the total size written in the header,
\* and that total is the start plus the sum of all sizes.
C17_SaveLayout ==
    (SaveCalled(op, result) /\ result = "ok")
    => LET ents  == Entries
           start == PayloadRegionStart(TheArchive.header, ents)
           total == read_uint32_le(SubSeq(written, 5, 8))
       IN /\ Len(written) - SumSeq([j \in 1..Len(ents) |-> Len(ents[j].data)]) = start
          /\ \A i \in 1..Len(ents) :
                ents[i].offset = start + SumSeq([j \in 1..(i - 1) |-> ents[j].size])
          /\ \A i, j \in 1..Len(ents) :
                i < j => ents[i].offset + ents[i].size <= ents[j].offset
          /\ \A i \in 1..Len(ents) : ents[i].offset + ents[i].size <= total
          /\ total = start + SumSeq([j \in 1..Len(ents) |-> ents[j].size])

\* The line the step read.
LineRead == text'[Len(text')]

\* A section is open: lines 136-138 buffer into it.
SectionOpen(st) == st.current_object # <<>> /\ st.in_section /\ st.current_section # <<>>

\* A line that is not blank, not a comment and not a standalone End.
IsContentLine(l) == strip(l) # <<>> /\ Head(strip(l)) # ";" /\ strip(l) # W.End

\* C18: inside an open section every line that is not blank, not a comment
\* and not a standalone End is buffered (stripped of its indentation) into
\* that section, also when it begins with an object keyword; it opens no
\* definition and leaves the section open.
C18_SectionBuffersEveryLine ==
    [][(text' # text /\ SectionOpen(parser) /\ IsContentLine(LineRead))
       => /\ parser'.error = ""
          /\ parser'.section_properties = Append(parser.section_properties, strip(LineRead))
          /\ DictKeys(parser'.objects) = DictKeys(parser.objects)
          /\ parser'.current_object = parser.current_object
          /\ parser'.current_section = parser.current_section
          /\ SectionOpen(parser')]_vars

\* C19: a standalone End closes the innermost open section after the
\* post-processing of its type, whatever the number of buffered lines: a
\* closed WeaponSet carries a weapons list, possibly empty, and the
\* definition stays open; with no section open End closes the definition.
C19_EndPostProcesses ==
    [][(text' # text /\ strip(LineRead) = W.End /\ parser.error = "")
       => IF SectionOpen(parser)
          THEN /\ parser'.current_object = parser.current_object
               /\ parser'.section_stack
                    = SubSeq(parser.section_stack, 1, Len(parser.section_stack) - 1)
               /\ LET closed == DictGet(DictGet(parser'.objects, parser.current_section[1][1]).sections,
                                        parser.current_section[1][2])
                  IN /\ closed.type = W.WeaponSet
                          => /\ DictHas(closed.properties, K.weapons)
                             /\ DictGet(closed.properties, K.weapons).kind = "list"
                     /\ closed.type = W.ArmorSet
                          => /\ DictHas(closed.properties, K.armors)
                             /\ DictGet(closed.properties, K.armors).kind = "list"
                     /\ closed.type = W.Prerequisites
                          => /\ DictHas(closed.properties, K.prerequisites)
                             /\ DictGet(closed.properties, K.prerequisites).kind = "list"
          ELSE parser'.current_object = <<>>]_vars

\* A line that opens a block closed by its own End: a section name or a
\* module line.
IsOpener(l) ==
    \/ strip(l) \in {W.WeaponSet, W.ArmorSet, W.Prerequisites, W.Conditions}
    \/ Contains(l, <<"=">>) /\ Contains(l, W.ModuleTag)

\* The number of blocks open after the lines t when d were open before them,
\* the definition included, each End balancing the latest opener.
RECURSIVE Depth(_, _)
Depth(t, d) ==
    IF t = <<>> \/ d = 0 THEN d
    ELSE IF IsOpener(Head(t)) THEN Depth(Tail(t), d + 1)
    ELSE IF strip(Head(t)) = W.End THEN Depth(Tail(t), d - 1)
    ELSE Depth(Tail(t), d)

\* A keyword line followed by lines none of which begins with an object keyword.
IsNestingText(t) ==
    /\ t # <<>>
    /\ IsKeywordLine(t[1])
    /\ \A i \in 2..Len(t) : ~_is_object_definition(strip(t[i]))

\* C20: sections nest with stack discipline.  After a keyword line and lines
\* that open no definition, the definition is open exactly while the End
\* lines have not balanced its opening line, a section is open exactly while
\* an opener is unbalanced, the stack holds the unbalanced openers, and a
\* property line read while only the definition is open is assigned to it.
C20_StackDiscipline ==
    (parser.error = "" /\ IsNestingText(text))
    => LET d    == Depth(Tail(text), 1)
           last == text[Len(text)]
       IN /\ (parser.current_object # <<>>) <=> (d >= 1)
          /\ SectionOpen(parser) <=> (d >= 2)
          /\ d >= 1 => Len(parser.section_stack) = d - 1
          /\ (d = 1 /\ Len(text) >= 2 /\ IsPropertyLine(last))
                => /\ Len(parser.objects) = 1
                   /\ DictHas(parser.objects[1][2].properties, PropertyKey(last))

\* ------------------------------------------------------------------ graph runs
\* The entries the archives of these runs are made of.
IniFiles ==
    [
     \* Object\AmericaVehicle.ini: a unit with a locomotor, a weapon, a prerequisite and an upgrade module
     Tank |->
        [path |-> encode(<<"O", "b", "j", "e", "c", "t", "\\", "A", "m", "e", "r", "i", "c", "a", "V", "e", "h", "i", "c", "l", "e", ".", "i", "n", "i">>),
         data |-> encode(<<"O", "b", "j", "e", "c", "t", " ", "T", "a", "n", "k", "\n",
                         " ", " ", "L", "o", "c", "o", "m", "o", "t", "o", "r", "=", "S", "E", "T", "_", "N", "O", "R", "M", "A", "L", " ", "L", "o", "c", "o", "\n",
                         " ", " ", "W", "e", "a", "p", "o", "n", "S", "e", "t", "\n",
                         " ", " ", " ", " ", "W", "e", "a", "p", "o", "n", "=", "P", "R", "I", "M", "A", "R", "Y", " ", "G", "u", "n", "\n",
                         " ", " ", "E", "n", "d", "\n",
                         " ", " ", "P", "r", "e", "r", "e", "q", "u", "i", "s", "i", "t", "e", "s", "\n",
                         " ", " ", " ", " ", "O", "b", "j", "e", "c", "t", "=", "B", "a", "r", "r", "a", "c", "k", "s", "\n",
                         " ", " ", "E", "n", "d", "\n",
                         " ", " ", "O", "b", "j", "e", "c", "t", "C", "r", "e", "a", "t", "i", "o", "n", "U", "p", "g", "r", "a", "d", "e", " ", "=", " ", "M", "o", "d", "u", "l", "e", "T", "a", "g", "_", "0", "2", "\n",
                         " ", " ", " ", " ", "T", "r", "i", "g", "g", "e", "r", "e", "d", "B", "y", " ", "=", " ", "U", "p", "g", "r", "a", "d", "e", "_", "A", "\n",
                         " ", " ", "E", "n", "d", "\n",
                         "E", "n", "d">>)],
     \* Weapon.ini: the weapon
     Gun |->
        [path |-> encode(<<"W", "e", "a", "p", "o", "n", ".", "i", "n", "i">>),
         data |-> encode(<<"W", "e", "a", "p", "o", "n", " ", "G", "u", "n", "\n",
                         "E", "n", "d">>)],
     \* Other.INI: a second file that defines Tank
     Other |->
        [path |-> encode(<<"O", "t", "h", "e", "r", ".", "I", "N", "I">>),
         data |-> encode(<<"O", "b", "j", "e", "c", "t", " ", "T", "a", "n", "k", "\n",
                         " ", " ", "A", "r", "m", "o", "r", "S", "e", "t", "\n",
                         " ", " ", " ", " ", "A", "r", "m", "o", "r", "=", "P", "l", "a", "t", "e", "\n",
                         " ", " ", "E", "n", "d", "\n",
                         "E", "n", "d">>)],
     \* Bad.ini: a module section keyed WeaponSet whose weapons value is a str
     Bad |->
        [path |-> encode(<<"B", "a", "d", ".", "i", "n", "i">>),
         data |-> encode(<<"O", "b", "j", "e", "c", "t", " ", "B", "a", "d", "\n",
                         "D", "r", "a", "w", " ", "W", "e", "a", "p", "o", "n", "S", "e", "t", " ", "=", " ", "M", "o", "d", "u", "l", "e", "T", "a", "g", "_", "1", "\n",
                         "w", "e", "a", "p", "o", "n", "s", " ", "=", " ", "a", "b", "c", "\n",
                         "E", "n", "d", "\n",
                         "E", "n", "d">>)],
     \* Jeep.ini: what a file is replaced with
     Jeep |->
        [path |-> encode(<<"J", "e", "e", "p", ".", "i", "n", "i">>),
         data |-> encode(<<"O", "b", "j", "e", "c", "t", " ", "J", "e", "e", "p", "\n",
                         "E", "n", "d">>)],
     \* Str.ini: a module section keyed Prerequisites whose prerequisites value is a str
     StrValue |->
        [path |-> encode(<<"S", "t", "r", ".", "i", "n", "i">>),
         data |-> encode(<<"O", "b", "j", "e", "c", "t", " ", "T", "a", "n", "k", "\n",
                         "D", "r", "a", "w", " ", "P", "r", "e", "r", "e", "q", "u", "i", "s", "i", "t", "e", "s", " ", "=", " ", "M", "o", "d", "u", "l", "e", "T", "a", "g", "_", "1", "\n",
                         "p", "r", "e", "r", "e", "q", "u", "i", "s", "i", "t", "e", "s", " ", "=", " ", "a", "b", "\n",
                         "E", "n", "d", "\n",
                         "E", "n", "d">>)],
     \* readme.txt: not a config file
     Readme |->
        [path |-> encode(<<"r", "e", "a", "d", "m", "e", ".", "t", "x", "t">>),
         data |-> encode(<<"h", "i">>)] ]

\* The archive in.big holds at the start, and the one out.big holds.
GraphArchives ==
    [first  |-> { InputArchive(BIGF, <<IniFiles.Tank, IniFiles.Gun>>, "packed"),
                  InputArchive(BIG4, <<IniFiles.Other, IniFiles.Tank>>, "packed") },
     second |-> { InputArchive(BIG5, <<IniFiles.Bad, IniFiles.Readme>>, "packed"),
                  InputArchive(BIGF, <<IniFiles.Tank, IniFiles.Bad>>, "scattered") }]

\* What replace_file reads.
GraphData == { IniFiles.Jeep.data, IniFiles.Bad.data, IniFiles.StrValue.data }

\* The editor after startup, two archives on disk.
GraphInit ==
    /\ disk \in { [f \in Files |-> IF f = "in.big" THEN a
                                   ELSE IF f = "out.big" THEN b ELSE NoBytes] :
                  a \in GraphArchives.first, b \in GraphArchives.second }
    /\ archive = <<>>
    /\ current_file = ""
    /\ current_entry = 0
    /\ entry_map = {}
    /\ heap = <<>>
    /\ op = "init"
    /\ args = NoArgs
    /\ result = "ok"
    /\ written = <<>>
    /\ rt = NoRoundTrip
    /\ prev = [op |-> "init", args |-> NoArgs, result |-> "ok", written |-> <<>>]
    /\ steps = 0
    /\ ParserIdle
    /\ GraphIdle

GraphNext ==
    \/ \E f \in Files : open_archive(f) /\ Tick
    \/ \E e \in 1..MaxIds : on_tree_select(e) /\ Tick
    \/ \E d \in GraphData : replace_file(d) /\ Tick

GraphSpec == GraphInit /\ [][GraphNext]_vars

\* ------------------------------------------------------------------ graph claims
\* C12: parsing never raises, whatever the lines and their order, and the
\* relationship build on the objects parsed so far does not raise either.
C12_ParseNeverRaises ==
    /\ parser.error = ""
    /\ _build_relationships(parser.objects).err = ""

\* The edge maps, once a build has run.
Rel == relationships[1]

\* C13: after a build, every unit listed for a weapon it uses is listed among
\* the units of that weapon, and every object is listed among the objects
\* each of its prerequisites enables.
C13_RelationshipSymmetry ==
    relationships # <<>>
    => /\ \A i \in 1..Len(Rel.unit_weapons) :
             LET u  == Rel.unit_weapons[i][1]
                 ws == Rel.unit_weapons[i][2]
             IN \A k \in 1..Len(ws) :
                   /\ DictHas(Rel.weapon_units, ws[k])
                   /\ InList(DictGet(Rel.weapon_units, ws[k]), u)
       /\ \A i \in 1..Len(Rel.prerequisites) :
             LET o  == Rel.prerequisites[i][1]
                 ps == Elements(Rel.prerequisites[i][2])
             IN \A k \in 1..Len(ps) :
                   /\ DictHas(Rel.enables, ps[k])
                   /\ InList(DictGet(Rel.enables, ps[k]), o)

\* A build that found a weapon edge and a prerequisite edge.
C13_Witness ==
    /\ relationships # <<>>
    /\ Rel.unit_weapons # <<>>
    /\ Rel.prerequisites # <<>>

\* The weapons the WeaponSet of a definition names.
WeaponsNamed(obj_data) ==
    IF DictHas(obj_data.sections, W.WeaponSet)
    THEN LET v == DictGetOr(DictGet(obj_data.sections, W.WeaponSet).properties,
                            K.weapons, List(<<>>))
         IN IF v.kind = "list" THEN [i \in 1..Len(v.v) |-> v.v[i].weapon] ELSE <<>>
    ELSE <<>>

\* The unit of the i-th definition names a weapon that is no key of the map.
Dangling(objs, i, w) == InList(WeaponsNamed(objs[i][2]), w) /\ ~DictHas(objs, w)

\* C14: building the graph from a map in which a WeaponSet names a weapon
\* that is no key of the map does not raise, records the edge from the unit
\* to the weapon, and a lookup of the missing name in the reverse edge map
\* finds nothing.
C14_DanglingTargetTolerated ==
    LET b == _build_relationships(all_objects)
    IN \A i \in 1..Len(all_objects) :
          \A w \in { WeaponsNamed(all_objects[i][2])[k] :
                        k \in 1..Len(WeaponsNamed(all_objects[i][2])) } :
             Dangling(all_objects, i, w)
             => /\ b.err = ""
                /\ InList(DictGetOr(b.rel.unit_weapons, all_objects[i][1], <<>>), w)
                /\ DictGetOr(b.rel.weapon_units, w, <<>>) = <<>>

\* The keys of the definitions of the map objs that carry the label f.
KeysFrom(objs, f) == { objs[i][1] : i \in { j \in 1..Len(objs) : objs[j][2].source_file = f } }

\* The step loaded an entry into the node editor and lines 510-519 raised nothing.
Reparsed ==
    /\ op' \in {"on_tree_select", "replace_file"}
    /\ is_ini(heap'[args'.entry].path)
    /\ load_error' = ""

\* C15: after a file was parsed again the aggregate map holds, under that
\* file's label, exactly the definitions of the new parse, and every
\* definition of another file is still there, unchanged.
C15_ReparseReplaces ==
    [][Reparsed
       => LET entry == heap'[args'.entry]
              f     == chars(entry.path)
              new   == parse_entry(entry).objects
          IN /\ KeysFrom(all_objects', f) = { new[i][1] : i \in 1..Len(new) }
             /\ \A i \in 1..Len(new) : DictGet(all_objects', new[i][1]) = new[i][2]
             /\ \A i \in 1..Len(all_objects) :
                   all_objects[i][2].source_file # f
                   => /\ DictHas(all_objects', all_objects[i][1])
                      /\ DictGet(all_objects', all_objects[i][1]) = all_objects[i][2]]_vars

\* C16: after any calls of parse_all_ini_files and load_ini_to_nodes the edge
\* maps are what a build from empty edge maps gives on the aggregate map as
\* it is now.
C16_GraphFullyRebuilt ==
    relationships # <<>> => Rel = _build_relationships(all_objects).rel

\* ------------------------------------------------------------------ property claims
\* The text before the first "=" of a line, and the text after it.
LeftSide(l) == split_char_once(strip(l), "=")[1]
RightSide(l) == split_char_once(strip(l), "=")[2]

\* The step read a line holding "=" while a definition is open and no section
\* is: the line is no definition line, no End and no comment.
AssignmentRead ==
    /\ text' # text
    /\ parser.error = ""
    /\ parser.current_object # <<>> /\ ~parser.in_section
    /\ IsContentLine(LineRead)
    /\ ~_is_object_definition(strip(LineRead))
    /\ Contains(LineRead, <<"=">>)

\* C21: inside an open definition with no open section, a line holding "="
\* opens a tagged module section exactly when the text before its first "="
\* holds ModuleTag_; the type of the section is the first token of that text
\* and its tag the last one.  A line whose ModuleTag_ stands only to the right
\* of "=" is a plain property assignment on the definition.
C21_ModuleLine ==
    [][AssignmentRead
       => LET toks == split_ws(LeftSide(LineRead), <<>>)
              name == parser.current_object[1]
              old  == DictGet(parser.objects, name)
              new  == DictGet(parser'.objects, name)
          IN /\ parser'.error = ""
             /\ IF Contains(LeftSide(LineRead), W.ModuleTag)
                THEN /\ SectionOpen(parser')
                     /\ parser'.current_section = << <<name, toks[Len(toks)]>> >>
                     /\ DictHas(new.sections, toks[Len(toks)])
                     /\ DictGet(new.sections, toks[Len(toks)]).type = toks[1]
                     /\ DictGet(new.sections, toks[Len(toks)]).tag = <<toks[Len(toks)]>>
                     /\ new.properties = old.properties
                ELSE /\ ~parser'.in_section
                     /\ new.sections = old.sections
                     /\ new.properties
                          = DictSet(old.properties, strip(LeftSide(LineRead)),
                                    Str(strip(RightSide(LineRead))))]_vars


\* A line of the multi-valued key ShowSubObject, written `key value` or
\* `key = value`, and the value it gives.
IsShowLine(l) ==
    LET toks == split_ws(l, <<>>)
    IN /\ toks # <<>> /\ toks[1] = W.ShowSubObject
       /\ \/ Len(toks) = 2 /\ toks[2] # <<"=">>
          \/ Len(toks) = 3 /\ toks[2] = <<"=">>
ShowValue(l) == LET toks == split_ws(l, <<>>) IN toks[Len(toks)]

\* A keyword line followed by one or more ShowSubObject lines in either form.
IsShowText(t) ==
    /\ Len(t) >= 2
    /\ IsKeywordLine(t[1])
    /\ \A i \in 2..Len(t) : IsShowLine(t[i])

\* C22: every occurrence of ShowSubObject in a definition, written `key value`
\* or `key = value` and in any order of the two forms, appends its value to
\* the list stored under the key: after n occurrences the list holds the n
\* values in line order, and parsing them does not raise.
C22_MultiValuedKeys ==
    IsShowText(text)
    => /\ parser.error = ""
       /\ Len(parser.objects) = 1
       /\ DictHas(parser.objects[1][2].properties, W.ShowSubObject)
       /\ DictGet(parser.objects[1][2].properties, W.ShowSubObject)
            = List([i \in 1..(Len(text) - 1) |-> ShowValue(text[i + 1])])

\* ------------------------------------------------------------------ unit runs
\* The lines the texts of these runs are made of: definition lines with a
\* plain name, with `=` before or after the name and with a second token,
\* sections with their lines written without a blank after the keyword and
\* (Object = Barracks) with one, Locomotor values of one token, of two
\* tokens parted by a blank and of two tokens parted by a tab, and a module
\* section with one property.
U ==
    [Tank |-> <<"O", "b", "j", "e", "c", "t", " ", "T", "a", "n", "k">>,
     NameEq |-> <<"W", "e", "a", "p", "o", "n", " ", "=", " ", "F", "o", "o">>,
     NameEqTwo |-> <<"W", "e", "a", "p", "o", "n", " ", "=", " ", "F", "o", "o", " ", "B", "a", "r">>,
     NameLaterEq |-> <<"W", "e", "a", "p", "o", "n", " ", "F", "o", "o", " ", "=", " ", "B", "a", "r">>,
     NameTwoBlanks |-> <<"W", "e", "a", "p", "o", "n", " ", "=", " ", " ", "F", "o", "o">>,
     WeaponSet |-> <<"W", "e", "a", "p", "o", "n", "S", "e", "t">>,
     Gun |-> <<"W", "e", "a", "p", "o", "n", "=", "P", "R", "I", "M", "A", "R", "Y", " ", "G", "u", "n">>,
     Other |-> <<"W", "e", "a", "p", "o", "n", "=", "S", "E", "C", "O", "N", "D", "A", "R", "Y", " ", "O", "t", "h", "e", "r">>,
     ArmorSet |-> <<"A", "r", "m", "o", "r", "S", "e", "t">>,
     Plate |-> <<"A", "r", "m", "o", "r", "=", "P", "l", "a", "t", "e">>,
     Steel |-> <<"A", "r", "m", "o", "r", "=", "S", "t", "e", "e", "l">>,
     NoConditions |-> <<"C", "o", "n", "d", "i", "t", "i", "o", "n", "s", " ", "=", " ", "N", "o", "n", "e">>,
     Prerequisites |-> <<"P", "r", "e", "r", "e", "q", "u", "i", "s", "i", "t", "e", "s">>,
     BarracksEq |-> <<"O", "b", "j", "e", "c", "t", " ", "=", " ", "B", "a", "r", "r", "a", "c", "k", "s">>,
     Barracks |-> <<"O", "b", "j", "e", "c", "t", "=", "B", "a", "r", "r", "a", "c", "k", "s">>,
     Factory |-> <<"O", "b", "j", "e", "c", "t", "=", "F", "a", "c", "t", "o", "r", "y">>,
     Loco |-> <<"L", "o", "c", "o", "m", "o", "t", "o", "r", "=", "S", "E", "T", "_", "N", "O", "R", "M", "A", "L", " ", "L", "o", "c", "o">>,
     LocoOne |-> <<"L", "o", "c", "o", "m", "o", "t", "o", "r", "=", "L", "o", "c", "o">>,
     LocoTab |-> <<"L", "o", "c", "o", "m", "o", "t", "o", "r", "=", "S", "E", "T", "_", "N", "O", "R", "M", "A", "L", "\t", "L", "o", "c", "o">>,
     Module |-> <<"D", "r", "a", "w", " ", "M", "o", "d", "u", "l", "e", "T", "a", "g", "_", "0", "1", " ", "=", " ", "W", "3", "D">>,
     Mesh |-> <<"M", "e", "s", "h", " ", "=", " ", "H", "u", "l", "l">>,
     End |-> <<"E", "n", "d">>]

\* The blocks a text is a sequence of: a definition line, a whole section, a
\* Locomotor property, the End of the definition.
UnitBlocks ==
    { <<U.Tank>>, <<U.NameEq>>, <<U.NameEqTwo>>, <<U.NameLaterEq>>, <<U.NameTwoBlanks>>,
      <<U.WeaponSet, U.Gun, U.End>>, <<U.WeaponSet, U.Other, U.Gun, U.End>>,
      <<U.WeaponSet, U.End>>,
      <<U.ArmorSet, U.Plate, U.Steel, U.End>>,
      <<U.ArmorSet, U.NoConditions, U.End>>,
      <<U.Prerequisites, U.BarracksEq, U.End>>,
      <<U.Prerequisites, U.Barracks, U.Factory, U.End>>,
      <<U.Module, U.Mesh, U.End>>,
      <<U.Loco>>, <<U.LocoOne>>, <<U.LocoTab>>,
      <<U.End>> }

\* The blocks a text starts with: the lines that open a definition.
UnitHeads == { b \in UnitBlocks : Len(b) = 1 /\ _is_object_definition(b[1]) }

\* Blocks in one text.
MaxBlocks == 3

UnitLines == UNION { { b[i] : i \in 1..Len(b) } : b \in UnitBlocks }

\* t is made of at most n blocks, the last of which may be cut short when the
\* loop is still reading it (whole = FALSE).
RECURSIVE ReadsBlocks(_, _, _)
ReadsBlocks(t, n, whole) ==
    IF t = <<>> THEN TRUE
    ELSE /\ n > 0
         /\ \E b \in UnitBlocks :
               IF Len(t) < Len(b)
               THEN ~whole /\ SubSeq(b, 1, Len(t)) = t
               ELSE /\ SubSeq(t, 1, Len(b)) = b
                    /\ ReadsBlocks(SubSeq(t, Len(b) + 1, Len(t)), n - 1, whole)

\* The texts: a definition line and up to MaxBlocks - 1 further blocks; and
\* what the loop has read of one of them after some passes.
UnitTexts(t) ==
    \E h \in UnitHeads :
        /\ Len(t) >= Len(h)
        /\ SubSeq(t, 1, Len(h)) = h
        /\ ReadsBlocks(SubSeq(t, Len(h) + 1, Len(t)), MaxBlocks - 1, TRUE)
UnitPrefixes(t) ==
    \/ t = <<>>
    \/ \E h \in UnitHeads :
          /\ Len(t) >= Len(h)
          /\ SubSeq(t, 1, Len(h)) = h
          /\ ReadsBlocks(SubSeq(t, Len(h) + 1, Len(t)), MaxBlocks - 1, FALSE)

UnitInit ==
    /\ EditorStart({<<>>})
    /\ GraphIdle
    /\ text = <<>>
    /\ source_file = <<"O", "b", "j", "e", "c", "t", "/", "T", ".", "i", "n", "i">>
    /\ parser = ParserStart

\* One pass of the for loop on the next line of a text.
unit_step(l) ==
    /\ relationships = <<>>
    /\ UnitPrefixes(Append(text, l))
    /\ parser.error = ""
    /\ parser' = parse_line(parser, l, Len(text), source_file)
    /\ text' = Append(text, l)
    /\ UNCHANGED <<source_file, codecVars, graphVars>>

\* The text ends here: parse_ini_content returns its map (line 142) and
\* parse_all_ini_files builds the graph on it (line 33).
unit_build ==
    LET built(b) == /\ relationships' = <<b.rel>>
                    /\ load_error' = b.err
    IN /\ relationships = <<>>
       /\ UnitTexts(text)
       /\ parser.error = ""
       /\ all_objects' = parser.objects
       /\ built(_build_relationships(parser.objects))
       /\ UNCHANGED <<parserVars, codecVars>>

UnitNext ==
    \/ \E l \in UnitLines : unit_step(l)
    \/ unit_build

UnitSpec == UnitInit /\ [][UnitNext]_vars

\* ------------------------------------------------------------------ unit claims
\* A line `Object = <name>`, with or without blanks around the "=".
IsPrerequisiteLine(l) ==
    /\ Contains(l, <<"=">>)
    /\ strip(LeftSide(l)) = W.Object
    /\ Len(split_ws(RightSide(l), <<>>)) = 1

\* The text of a definition with a Prerequisites section of such lines: the
\* keyword line, Prerequisites, the lines, the End of the section and, when
\* the text goes on, the End of the definition.
IsPrerequisitesText(t) ==
    \E n \in {Len(t) - 1, Len(t)} :
       /\ n >= 4
       /\ IsKeywordLine(t[1])
       /\ strip(t[2]) = W.Prerequisites
       /\ \A i \in 3..(n - 1) : IsPrerequisiteLine(t[i])
       /\ \A i \in n..Len(t) : strip(t[i]) = W.End

\* The names of the `Object = <name>` lines of t in line order.
PrerequisiteNames(t) ==
    LET ls == SelectSeq(t, IsPrerequisiteLine)
    IN [i \in 1..Len(ls) |-> strip(RightSide(ls[i]))]

\* C23: for a definition D whose text has a Prerequisites section of lines
\* `Object = <name>`, parsing yields D alone, with a prerequisites list of the
\* names in line order, and the graph built on the result has that list as
\* prerequisites[D] and D among enables[name] for each name.
C23_PrerequisitesParsed ==
    (relationships # <<>> /\ IsPrerequisitesText(text))
    => LET D     == split_ws(text[1], <<>>)[2]
           names == PrerequisiteNames(text)
       IN /\ DictKeys(all_objects) = <<D>>
          /\ DictHas(DictGet(all_objects, D).sections, W.Prerequisites)
          /\ DictGetOr(DictGet(DictGet(all_objects, D).sections, W.Prerequisites).properties,
                       K.prerequisites, None) = List(names)
          /\ DictGetOr(Rel.prerequisites, D, None) = List(names)
          /\ \A i \in 1..Len(names) : InList(DictGetOr(Rel.enables, names[i], <<>>), D)

\* The same for sections whose lines are all written `Object=<name>`, with
\* no blank after the keyword.
PrerequisitesParsedNoBlank ==
    (relationships # <<>> /\ IsPrerequisitesText(text)
       /\ \A i \in 1..Len(text) : IsPrerequisiteLine(text[i]) => ~_is_object_definition(strip(text[i])))
    => LET D     == split_ws(text[1], <<>>)[2]
           names == PrerequisiteNames(text)
       IN /\ DictKeys(all_objects) = <<D>>
          /\ DictGetOr(Rel.prerequisites, D, None) = List(names)
          /\ \A i \in 1..Len(names) : InList(DictGetOr(Rel.enables, names[i], <<>>), D)


\* The remainder of a keyword line after the keyword and the whitespace
\* behind it, and that remainder without a leading "=" and the blanks that
\* follow it.
Remainder(l) == split_ws_once(strip(l))[2]
ExpectedName(l) ==
    IF Head(Remainder(l)) = "=" THEN lstrip(Tail(Remainder(l))) ELSE Remainder(l)

\* The step read a line that starts with an object keyword and a blank.
DefinitionRead ==
    /\ text' # text
    /\ parser.error = ""
    /\ _is_object_definition(strip(LineRead))

\* C24: the name of the definition a keyword line opens is the remainder of
\* the line after the keyword, without a leading "=" and the blank behind it;
\* every other character of the remainder is kept, and the name is not empty.
C24_DefinitionName ==
    [][DefinitionRead
       => /\ parser'.current_object = <<ExpectedName(LineRead)>>
          /\ parser'.current_object[1] # <<>>
          /\ DictHas(parser'.objects, ExpectedName(LineRead))
          /\ DictGet(parser'.objects, ExpectedName(LineRead)).name = ExpectedName(LineRead)]_vars

\* The same for keyword lines `<Keyword> <Name>` and `<Keyword> = <Name>`
\* with a name of one token and single blanks.
DefinitionNameOneToken ==
    [][(DefinitionRead /\ Len(split_ws(ExpectedName(LineRead), <<>>)) = 1
          /\ ~Contains(ExpectedName(LineRead), <<"=">>)
          /\ Remainder(LineRead) \in {ExpectedName(LineRead),
                                      <<"=", " ">> \o ExpectedName(LineRead)})
       => /\ parser'.current_object = <<ExpectedName(LineRead)>>
          /\ DictGet(parser'.objects, ExpectedName(LineRead)).name = ExpectedName(LineRead)]_vars


\* The armors list of the ArmorSet section of a definition, empty when the
\* section carries none, and the lines buffered in that section.
ArmorsOf(obj_data) ==
    DictGetOr(DictGet(obj_data.sections, W.ArmorSet).properties, K.armors, List(<<>>)).v
BufferedIn(section) == DictGetOr(section.properties, K.raw, List(<<>>)).v

\* The armors the buffered lines declare: the values of the lines
\* `Armor...=<name>` in line order.
IsArmorLine(l) == StartsWith(l, W.Armor) /\ Contains(l, <<"=">>)
DeclaredArmors(ls) ==
    LET as == SelectSeq(ls, IsArmorLine)
    IN [i \in 1..Len(as) |-> strip(RightSide(as[i]))]

\* Every name that is a key of an edge map or is listed under a key.
EdgeNames(rel) ==
    LET keys(m)   == { m[i][1] : i \in 1..Len(m) }
        listed(m) == UNION { { m[i][2][k] : k \in 1..Len(m[i][2]) } : i \in 1..Len(m) }
        single(m) == { m[i][2] : i \in 1..Len(m) }
        typed(m)  == UNION { { Elements(m[i][2])[k] : k \in 1..Len(Elements(m[i][2])) } :
                             i \in 1..Len(m) }
    IN keys(rel.unit_weapons) \cup listed(rel.unit_weapons)
       \cup keys(rel.weapon_units) \cup listed(rel.weapon_units)
       \cup keys(rel.unit_armor) \cup single(rel.unit_armor)
       \cup keys(rel.unit_locomotor) \cup single(rel.unit_locomotor)
       \cup keys(rel.unit_general) \cup single(rel.unit_general)
       \cup keys(rel.general_units) \cup listed(rel.general_units)
       \cup keys(rel.upgrade_units) \cup listed(rel.upgrade_units)
       \cup keys(rel.unit_upgrades) \cup listed(rel.unit_upgrades)
       \cup keys(rel.prerequisites) \cup typed(rel.prerequisites)
       \cup keys(rel.enables) \cup listed(rel.enables)

C26_LocomotorLastToken ==
    relationships # <<>>
    => \A i \in 1..Len(all_objects) :
          LET u    == all_objects[i][1]
              v    == DictGetOr(all_objects[i][2].properties, W.Locomotor, None)
              toks == split_ws(v.v, <<>>)
          IN IF v.kind = "str" /\ Len(toks) >= 2
             THEN DictHas(Rel.unit_locomotor, u) /\ DictGet(Rel.unit_locomotor, u) = toks[Len(toks)]
             ELSE ~DictHas(Rel.unit_locomotor, u)

\* The same for values whose tokens are parted by blanks.
LocomotorLastTokenBlanks ==
    relationships # <<>>
    => \A i \in 1..Len(all_objects) :
          LET u    == all_objects[i][1]
              v    == DictGetOr(all_objects[i][2].properties, W.Locomotor, None)
              toks == split_ws(v.v, <<>>)
          IN ~Contains(v.v, <<"\t">>)
             => IF v.kind = "str" /\ Len(toks) >= 2
                THEN DictHas(Rel.unit_locomotor, u)
                     /\ DictGet(Rel.unit_locomotor, u) = toks[Len(toks)]
                ELSE ~DictHas(Rel.unit_locomotor, u)


\* The step read a section name or a module line while a definition is open
\* and no section is, and lines 104-131 opened the section.
OpenerRead ==
    /\ text' # text
    /\ parser.error = "" /\ parser'.error = ""
    /\ parser.current_object # <<>> /\ ~parser.in_section
    /\ ~_is_object_definition(strip(LineRead))
    /\ IsOpener(LineRead)

\* No key occurs twice in the map d.
DistinctKeys(d) == \A i, j \in 1..Len(d) : d[i][1] = d[j][1] => i = j

\* The edges of every definition of objs are those of the sections it holds:
\* the weapons of its WeaponSet, the first armor of its ArmorSet, the
\* prerequisites of its Prerequisites section, and none where the section or
\* its list is missing or empty.
EdgesFromSections(objs, rel) ==
    \A i \in 1..Len(objs) :
       LET u == objs[i][1]
           d == objs[i][2]
           listOf(key, name) ==
               IF DictHas(d.sections, key)
               THEN DictGetOr(DictGet(d.sections, key).properties, name, List(<<>>))
               ELSE List(<<>>)
       IN /\ DictGetOr(rel.unit_weapons, u, <<>>) = WeaponsNamed(d)
          /\ IF listOf(W.ArmorSet, K.armors).v # <<>>
             THEN DictGetOr(rel.unit_armor, u, None) = listOf(W.ArmorSet, K.armors).v[1]
             ELSE ~DictHas(rel.unit_armor, u)
          /\ DictGetOr(rel.prerequisites, u, List(<<>>)) = listOf(W.Prerequisites, K.prerequisites)

\* C30: a definition keeps at most one section per section key.  Opening a
\* section under a key the definition already has replaces the earlier
\* section by the new, empty one and leaves the other sections alone, so the
\* lists of the earlier section are gone, and the graph built afterwards has
\* the edges of the sections that remain and no others.
C30_OneSectionPerKey ==
    [][/\ \A i \in 1..Len(parser'.objects) : DistinctKeys(parser'.objects[i][2].sections)
       /\ OpenerRead
          => LET name == parser.current_object[1]
                 key  == parser'.current_section[1][2]
                 old  == DictGet(parser.objects, name).sections
                 new  == DictGet(parser'.objects, name).sections
             IN /\ DictHas(new, key)
                /\ DictGet(new, key).properties = <<>>
                /\ Len(new) = IF DictHas(old, key) THEN Len(old) ELSE Len(old) + 1
                /\ \A k \in 1..Len(old) :
                      old[k][1] # key
                      => DictHas(new, old[k][1]) /\ DictGet(new, old[k][1]) = old[k][2]
       /\ relationships' # <<>> => EdgesFromSections(all_objects', relationships'[1])]_vars

\* A build on the text of one definition with two WeaponSet sections, the
\* first naming a weapon the second does not name: the weapon is in no edge map.
C30_Witness ==
    /\ relationships # <<>>
    /\ Len(all_objects) = 1
    /\ Len(SelectSeq(text, LAMBDA l : strip(l) = W.WeaponSet)) = 2
    /\ \E i \in 1..Len(text) : text[i] = U.Other
    /\ WeaponsNamed(all_objects[1][2]) # <<>>
    /\ ~InList(WeaponsNamed(all_objects[1][2]), split_ws(RightSide(U.Other), <<>>)[2])
    /\ split_ws(RightSide(U.Other), <<>>)[2] \notin EdgeNames(Rel)


\* ------------------------------------------------------------------ failed open, then save
\* C27: when an archive was opened successfully, the next open_archive fails
\* and save_archive follows, the file of the archive opened first is left as
\* it was or holds that archive's entries: it is not overwritten with what
\* the archive object of the failed open holds.
C27_SaveAfterFailedOpen ==
    [][(/\ prev.op = "open_archive" /\ prev.result = "ok"
        /\ prev.args.file = current_file
        /\ op = "open_archive" /\ result # "ok"
        /\ op' = "save_archive")
       => \/ disk'[current_file] = disk[current_file]
          \/ /\ load(disk'[current_file]).err = ""
             /\ Summary(load(disk'[current_file]).entries)
                  = Summary(load(disk[current_file]).entries)]_vars


\* ------------------------------------------------------------------ sizes and payloads
SizeIsPayloadLength ==
    \A i \in 1..Len(Entries) :
        Entries[i].data # NoBytes => Entries[i].size = Len(Entries[i].data)

SavedLayout ==
    (SaveCalled(op, result) /\ result = "ok")
    => /\ read_uint32_le(Slice(written, 4, 4)) = Len(written)
       /\ \A i \in 1..Len(Entries) : Entries[i].offset = PayloadStart(TheArchive, heap, i)

\* C28: every listed entry's size field is the length of its payload, also
\* after a load whose metadata points past the end of the file; so a save
\* that returned wrote a total size equal to the number of bytes written and
\* offsets that are the positions of the payloads.
C28_SizeMatchesPayload == SizeIsPayloadLength /\ SavedLayout

\* The same when the archive object was loaded from a well-formed file.
SizeMatchesPayloadWellFormed ==
    (archive # <<>> /\ WellFormed(TheArchive.original_data)) => C28_SizeMatchesPayload

\* A save that returned, from an archive loaded with an entry whose size
\* field is larger than its payload.
SavedWithLongSize ==
    /\ SaveCalled(op, result) /\ result = "ok"
    /\ \E i \in 1..Len(Entries) : Entries[i].size > Len(Entries[i].data)
    /\ read_uint32_le(Slice(written, 4, 4)) > Len(written)


\* ------------------------------------------------------------------ sections and definitions
\* The definitions of objs' that were in objs are as they were there, and a
\* definition that was not has neither a property nor a section.
NothingAdded(objs, objs2) ==
    /\ \A i \in 1..Len(objs) : DictHas(objs2, objs[i][1])
    /\ \A i \in 1..Len(objs2) :
          LET name == objs2[i][1]
              d    == objs2[i][2]
          IN \/ DictHas(objs, name) /\ DictGet(objs, name) = d
             \/ d.properties = <<>> /\ d.sections = <<>>

\* C29: after every line the stack of open sections holds at most one
\* section, in_section is true exactly when the stack is not empty, and an
\* open section comes with a current definition and a current section; a
\* line read while no definition is open adds or changes no property and no
\* section (the definition such a line opens starts with none).
C29_SectionsInsideDefinitions ==
    [][/\ Len(parser'.section_stack) <= 1
       /\ parser'.in_section <=> parser'.section_stack # <<>>
       /\ parser'.in_section
          => parser'.current_object # <<>> /\ parser'.current_section # <<>>
       /\ parser.current_object = <<>>
          => NothingAdded(parser.objects, parser'.objects)]_vars

\* A definition got a section and was closed, and a property line came after
\* its End.
C29_Witness ==
    /\ parser.current_object = <<>>
    /\ parser.error = ""
    /\ Len(parser.objects) = 1
    /\ parser.objects[1][2].sections # <<>>
    /\ Len(text) >= 2
    /\ strip(text[Len(text) - 1]) = W.End
    /\ Contains(text[Len(text)], <<"=">>)
    /\ ~_is_object_definition(strip(text[Len(text)]))
====
